---- MODULE Spec2Model ----
(***************************************************************************)
(* A model of the MaiMuriDX judge engine: the note state machines of       *)
(* simai.py, the hand actions of action.py, the note-to-action converter   *)
(* of majparse.py and JudgeManager.tick of judge.py.                       *)
(*                                                                         *)
(* Time is in ticks (integers).  Lengths are in hundredths of a canvas     *)
(* pixel (integers), so that the disc tests of the engine are integer      *)
(* comparisons of squared distances.  None is written 0 for actions and    *)
(* NoPad for pads.                                                         *)
(***************************************************************************)
EXTENDS Integers, Sequences, FiniteSets, TLC

VARIABLES
    loaded,            \* load_chart has been called
    note_sequence,     \* JudgeManager.note_sequence (static note records)
    action_sequence,   \* JudgeManager.action_sequence (static action records)
    timer,             \* JudgeManager.timer
    note_pointer,      \* JudgeManager.note_pointer
    action_pointer,    \* JudgeManager.action_pointer
    active_notes,      \* JudgeManager.active_notes (indices into note_sequence)
    active_actions,    \* JudgeManager.active_actions (indices into action_sequence)
    pad_states,        \* JudgeManager.pad_states (the set of pressed pads)
    last_pad_source,   \* JudgeManager.last_pad_source (pad -> action or 0)
    multi_touch_muri,  \* JudgeManager.multi_touch_muri (set of cursor sets)
    muri_record_list,  \* JudgeManager.muri_record_list
    ns,                \* the mutable fields of every note, by note index
    tick_out,          \* what the last tick computed and returned
    hash_rev,          \* the set iteration order of this run (see AreaOrder)
    hs                 \* the state of the slide harness (SpecSlide)

vars == <<loaded, note_sequence, action_sequence, timer, note_pointer,
          action_pointer, active_notes, active_actions, pad_states,
          last_pad_source, multi_touch_muri, muri_record_list, ns, tick_out,
          hash_rev, hs>>

(***************************************************************************)
(* Bounds of the model                                                     *)
(***************************************************************************)
\* tick(elapsed_time) is called with elapsed_time in 1..MaxDt
MaxDt == 2
\* the slides of the charts wait SlideWait ticks and last SlideDuration ticks
SlideWait == 60
SlideDuration == 60
\* the holds of the charts last HoldDuration ticks
HoldDuration == 20
\* the slide harness calls update at most MaxSteps times
MaxSteps == 3

(***************************************************************************)
(* core.py: judging constants                                              *)
(***************************************************************************)
CANVAS_SIZE == 540
JUDGE_TPF == 3
JUDGE_TPS == JUDGE_TPF * 60

TAP_CRITICAL == JUDGE_TPF * 1
TAP_AVAILABLE == JUDGE_TPF * 9
TOUCH_CRITICAL == JUDGE_TPF * 9
TOUCH_AVAILABLE == JUDGE_TPF * 9
SLIDE_CRITICAL == JUDGE_TPF * 14
SLIDE_AVAILABLE == JUDGE_TPF * 36
SLIDE_DELTA_SHIFT == JUDGE_TPF * 3
SLIDE_LEADING == JUDGE_TPF * 5

\* the defaults written to config.json
hand_radius_max == 180
hand_radius_wifi == 100
hand_radius_normal == 40
distance_merge_slide == 20
touch_on_slide_threshold == 8
extra_paddown_delay == 3
release_delay == 1
wifi_need_c == FALSE

\* lengths, in hundredths of a pixel
HAND_RADIUS_MAX == (CANVAS_SIZE * 100 * hand_radius_max) \div 1080
HAND_RADIUS_WIFI == (CANVAS_SIZE * 100 * hand_radius_wifi) \div 1080
HAND_RADIUS_NORMAL == (CANVAS_SIZE * 100 * hand_radius_normal) \div 1080
DISTANCE_MERGE_SLIDE == (CANVAS_SIZE * 100 * distance_merge_slide) \div 1080
DISTANCE_A == (CANVAS_SIZE * 100 * 410) \div 1080
DISTANCE_D == (CANVAS_SIZE * 100 * 440) \div 1080
DISTANCE_EDGE == (CANVAS_SIZE * 100 * 480) \div 1080

TOUCH_ON_SLIDE_THRESHOLD == JUDGE_TPF * touch_on_slide_threshold
EXTRA_PADDOWN_DELAY == JUDGE_TPF * extra_paddown_delay
RELEASE_DELAY == JUDGE_TPF * release_delay
FLAG_WIFI_NEED_C == wifi_need_c

Abs(x) == IF x < 0 THEN -x ELSE x
Min(a, b) == IF a <= b THEN a ELSE b
Max(a, b) == IF a >= b THEN a ELSE b
Range(s) == {s[i] : i \in DOMAIN s}

(***************************************************************************)
(* core.py: the 33 pads.  A pad is its enum value (group << 3) | index.    *)
(***************************************************************************)
Pads == 0..32
NoPad == -1
PadC == 32

PadOf(group, idx) == group * 8 + (idx % 8)
A(i) == PadOf(0, i)
B(i) == PadOf(1, i)
D(i) == PadOf(2, i)
E(i) == PadOf(3, i)

\* Pad.vec, by pad value (pad p is entry p + 1); unitvec is rounded to six
\* digits by angle2vec and scaled by the group's distance
PadX == <<-7845, 7845, 18940, 18940, 7845, -7845, -18940, -18940,
          -4210, 4210, 10163, 10163, 4210, -4210, -10163, -10163,
          -15556, 0, 15556, 22000, 15556, 0, -15556, -22000,
          -10960, 0, 10960, 15500, 10960, 0, -10960, -15500, 0>>
PadY == <<-18940, -18940, -7845, 7845, 18940, 18940, 7845, -7845,
          -10163, -10163, -4210, 4210, 10163, 10163, 4210, -4210,
          -15556, -22000, -15556, 0, 15556, 22000, 15556, 0,
          -10960, -15500, -10960, 0, 10960, 15500, 10960, 0, 0>>
\* Pad.radius, by group (RADIUS_A, RADIUS_B, RADIUS_D, RADIUS_E, RADIUS_C)
PadRadius(p) ==
    LET g == p \div 8
    IN  (CANVAS_SIZE * 100 * (CASE g = 0 -> 200 [] g = 1 -> 150 [] g = 2 -> 130
                                [] g = 3 -> 120 [] OTHER -> 210)) \div 2160

PadVec(p) == <<PadX[p + 1], PadY[p + 1]>>

\* Pad.rotate45cw
rotate45cw(p, deg45) ==
    IF p = PadC THEN p ELSE (p \div 8) * 8 + ((p + deg45) % 8)

\* Pad.reflect1c5: the table of names, by pad value
reflect1c5(p) ==
    << A(2), A(1), A(8), A(7), A(6), A(5), A(4), A(3),
       B(2), B(1), B(8), B(7), B(6), B(5), B(4), B(3),
       D(3), D(2), D(1), D(8), D(7), D(6), D(5), D(4),
       E(3), E(2), E(1), E(8), E(7), E(6), E(5), E(4),
       PadC >>[p + 1]

\* the body of Pad.next_to for v1 < v2
NextToOrdered(v1, v2) ==
    LET g1 == v1 \div 8
        g2 == v2 \div 8
        i1 == v1 % 8
        i2 == v2 % 8
    IN  IF g2 = 4 THEN g1 = 1
        ELSE IF \/ (g1 = 0 /\ g2 = 0) \/ (g1 = 2 /\ g2 = 2)
                \/ (g1 = 3 /\ g2 = 3) \/ (g1 = 1 /\ g2 = 2)
        THEN FALSE
        ELSE IF g1 = 1 /\ g2 = 1
        THEN i2 = (i1 + 1) % 8 \/ i2 = (i1 - 1) % 8
        ELSE IF (g1 = 0 /\ g2 = 1) \/ (g1 = 2 /\ g2 = 3)
        THEN i1 = i2
        ELSE i2 = (i1 + 1) % 8 \/ i2 = i1

\* a variant of the test that leaves the two values in the order given
next_to_Unordered(p, other) ==
    IF p = other THEN FALSE ELSE NextToOrdered(p, other)

\* Pad.next_to
next_to(p, other) ==
    IF p = other THEN FALSE
    ELSE IF p > other THEN NextToOrdered(other, p)
    ELSE NextToOrdered(p, other)

\* Pad.is_group_a
is_group_a(p) == 0 <= p /\ p <= 7

\* abs(v - c) <= r for points v, c, written without overflow
WithinDist(v, c, r) ==
    LET dx == Abs(v[1] - c[1])
        dy == Abs(v[2] - c[2])
    IN  /\ dx <= r
        /\ dy <= r
        /\ dx * dx + dy * dy <= r * r

\* abs(v - c) < r
StrictlyWithinDist(v, c, r) ==
    LET dx == Abs(v[1] - c[1])
        dy == Abs(v[2] - c[2])
    IN  /\ dx < r
        /\ dy < r
        /\ dx * dx + dy * dy < r * r

\* the test of the pad-resolution loop: the touch circle meets the pad disc
CircleHitsPad(center, radius, p) ==
    WithinDist(PadVec(p), center, PadRadius(p) + radius)

(***************************************************************************)
(* slides.py: the slide catalogue (straight slides and the wifi).          *)
(* A pad-entry time t in [0, 1] is kept in millionths.                     *)
(***************************************************************************)
\* _basic_slide["1-3"], ["1-4"], ["1-5"], ["1-6"], ["1-7"]: judge_sequence
BasicJudgeSequence(dist) ==
    CASE dist = 2 -> <<{A(1)}, {A(2), B(2)}, {A(3)}>>
      [] dist = 3 -> <<{A(1)}, {B(2)}, {B(3)}, {A(4)}>>
      [] dist = 4 -> <<{A(1)}, {B(1)}, {PadC}, {B(5)}, {A(5)}>>
      [] dist = 5 -> <<{A(1)}, {B(8)}, {B(7)}, {A(6)}>>
      [] dist = 6 -> <<{A(1)}, {A(8), B(8)}, {A(7)}>>

\* _basic_slide[...]: pad_enter_time
BasicPadEnterTime(dist) ==
    CASE dist = 2 -> <<<<D(2), 191789>>, <<E(2), 191789>>, <<A(2), 378000>>,
                       <<B(2), 378000>>, <<D(3), 622000>>, <<E(3), 622000>>,
                       <<A(3), 808211>>>>
      [] dist = 3 -> <<<<E(2), 179274>>, <<B(2), 318000>>, <<B(3), 500000>>,
                       <<E(4), 682000>>, <<A(4), 820726>>>>
      [] dist = 4 -> <<<<B(1), 200000>>, <<PadC, 380000>>, <<B(5), 660000>>,
                       <<A(5), 837061>>>>
      [] dist = 5 -> <<<<E(1), 179274>>, <<B(8), 318000>>, <<B(7), 500000>>,
                       <<E(7), 682000>>, <<A(6), 820726>>>>
      [] dist = 6 -> <<<<D(1), 191789>>, <<E(1), 191789>>, <<A(8), 378000>>,
                       <<B(8), 378000>>, <<D(8), 622000>>, <<E(8), 622000>>,
                       <<A(7), 808211>>>>

\* SlideInfoBase._transform_judge_sequence (no reflection)
transform_judge_sequence(seq, rot) ==
    [i \in DOMAIN seq |-> {rotate45cw(p, rot) : p \in seq[i]}]

\* SlideInfoBase._transform_pad_enter_time (no reflection)
transform_pad_enter_time(seq, rot) ==
    [i \in DOMAIN seq |-> <<rotate45cw(seq[i][1], rot), seq[i][2]>>]

\* the point at distance DISTANCE_EDGE from the centre towards pad A<i> (the
\* ends of every straight slide's SVG path, after SlidePath's rotation)
EdgeA(i) ==
    <<(PadX[A(i) + 1] * DISTANCE_EDGE) \div DISTANCE_A,
      (PadY[A(i) + 1] * DISTANCE_EDGE) \div DISTANCE_A>>

\* the same towards pad D<i> (the ends of the wifi's two real-hand paths)
EdgeD(i) ==
    <<(PadX[D(i) + 1] * DISTANCE_EDGE) \div DISTANCE_D,
      (PadY[D(i) + 1] * DISTANCE_EDGE) \div DISTANCE_D>>

\* SlideInfo.generate_all, the Straight entries: key "<start>-<end>" with
\* end = (start + dist) % 8 or 8, registered with rotate = start - 1
SlideInfoGet(start, dist) ==
    LET end == IF (start + dist) % 8 = 0 THEN 8 ELSE (start + dist) % 8
    IN  [ start          |-> start,
          end            |-> end,
          is_L           |-> FALSE,
          is_special_L   |-> FALSE,
          path           |-> <<EdgeA(start), EdgeA(end)>>,
          judge_sequence |-> transform_judge_sequence(BasicJudgeSequence(dist), start - 1),
          pad_enter_time |-> transform_pad_enter_time(BasicPadEnterTime(dist), start - 1) ]

\* _basic_slide["1V72"], ["1V73"], ["1V74"], ["1V75"]: judge_sequence
LShapeJudgeSequence(dist) ==
    CASE dist = 1 -> <<{A(1)}, {A(8), B(8)}, {A(7)}, {B(8)}, {B(1)}, {A(2)}>>
      [] dist = 2 -> <<{A(1)}, {A(8), B(8)}, {A(7)}, {B(7)}, {PadC}, {B(3)}, {A(3)}>>
      [] dist = 3 -> <<{A(1)}, {A(8), B(8)}, {A(7)}, {B(6)}, {B(5)}, {A(4)}>>
      [] dist = 4 -> <<{A(1)}, {A(8), B(8)}, {A(7)}, {A(6), B(6)}, {A(5)}>>

\* _basic_slide["1V7x"]: pad_enter_time
LShapePadEnterTime(dist) ==
    CASE dist = 1 -> <<<<D(1), 83149>>, <<E(1), 83149>>, <<A(8), 163880>>,
                       <<B(8), 163880>>, <<D(8), 269665>>, <<E(8), 269665>>,
                       <<A(7), 350396>>, <<E(8), 535096>>, <<B(8), 613678>>,
                       <<B(1), 716773>>, <<E(2), 819867>>, <<A(2), 898450>>>>
      [] dist = 2 -> <<<<D(1), 79442>>, <<E(1), 79442>>, <<A(8), 156573>>,
                       <<B(8), 156573>>, <<D(8), 257641>>, <<E(8), 257641>>,
                       <<A(7), 334772>>, <<B(7), 531371>>, <<PadC, 636812>>,
                       <<B(3), 800831>>, <<A(3), 904553>>>>
      [] dist = 3 -> <<<<D(1), 83149>>, <<E(1), 83149>>, <<A(8), 163880>>,
                       <<B(8), 163880>>, <<D(8), 269665>>, <<E(8), 269665>>,
                       <<A(7), 350396>>, <<E(7), 535096>>, <<B(6), 613678>>,
                       <<B(5), 716773>>, <<E(5), 819867>>, <<A(4), 898450>>>>
      [] dist = 4 -> <<<<D(1), 95895>>, <<E(1), 95895>>, <<A(8), 189000>>,
                       <<B(8), 189000>>, <<D(8), 311000>>, <<E(8), 311000>>,
                       <<A(7), 404105>>, <<D(7), 595895>>, <<E(7), 595895>>,
                       <<A(6), 689000>>, <<B(6), 689000>>, <<D(6), 811000>>,
                       <<E(6), 811000>>, <<A(5), 904105>>>>

\* SlideInfoBase._transform_judge_sequence and _transform_pad_enter_time with
\* reflect = True: the reflection, which the rotation follows
reflect_judge_sequence(seq) ==
    [i \in DOMAIN seq |-> {reflect1c5(p) : p \in seq[i]}]

reflect_pad_enter_time(seq) ==
    [i \in DOMAIN seq |-> <<reflect1c5(seq[i][1]), seq[i][2]>>]

\* SlideInfo.generate_all, the L-shape entries: key "<start>V<mid><end>",
\* counter-clockwise with end = start + dist and mid = start - 2, clockwise
\* (reflected) with end = start - dist and mid = start + 2; is_L and
\* is_special_L as SlideInfo.__init__ sets them.  The path is the broken
\* line over the three corners.
LShapeInfoGet(start, dist, cw) ==
    LET pad(i) == IF i % 8 = 0 THEN 8 ELSE i % 8
        end == IF cw THEN pad(start - dist) ELSE pad(start + dist)
        mid == IF cw THEN pad(start + 2) ELSE pad(start - 2)
        js  == LShapeJudgeSequence(dist)
        pet == LShapePadEnterTime(dist)
    IN  [ start          |-> start,
          end            |-> end,
          is_L           |-> TRUE,
          is_special_L   |-> ((end - start) % 8 = 4),
          path           |-> <<EdgeA(start), EdgeA(mid), EdgeA(end)>>,
          judge_sequence |->
              transform_judge_sequence(IF cw THEN reflect_judge_sequence(js) ELSE js,
                                       start - 1),
          pad_enter_time |->
              transform_pad_enter_time(IF cw THEN reflect_pad_enter_time(pet) ELSE pet,
                                       start - 1) ]

\* SlideInfo.get: the entry of a shape, <<start, dist>> for the straight
\* slide and <<start, dist, cw>> for the L-shape
ShapeInfo(shape) ==
    IF Len(shape) = 2 THEN SlideInfoGet(shape[1], shape[2])
    ELSE LShapeInfoGet(shape[1], shape[2], shape[3])

\* the time fraction at which the guiding star enters the last area
critical_proportion(info) == info.pad_enter_time[Len(info.pad_enter_time)][2]

\* WifiInfo.generate_all: key "<start>w<end>", end = (start - 4) % 8 or 8
WifiInfoGet(start) ==
    LET end == IF (start + 4) % 8 = 0 THEN 8 ELSE (start + 4) % 8
        rot == start - 1
        ccw == <<{A(1)}, {B(2)}, {B(3)}, {A(4), D(5)}>>
        mid == <<{A(1)}, {B(1)}, {PadC}, {B(5), A(5)}>>
        cw  == <<{A(1)}, {B(8)}, {B(7)}, {A(6), D(6)}>>
        real_ccw == <<EdgeA(start), EdgeD(start + 4)>>
        real_cw  == <<EdgeA(start), EdgeD(start + 5)>>
    IN  [ start              |-> start,
          end                |-> end,
          tri_judge_sequence |-> << transform_judge_sequence(ccw, rot),
                                    transform_judge_sequence(mid, rot),
                                    transform_judge_sequence(cw, rot) >>,
          di_real_path       |-> IF start \in {1, 2, 7, 8}
                                 THEN <<real_cw, real_ccw>>
                                 ELSE <<real_ccw, real_cw>>,
          pad_enter_time     |-> transform_pad_enter_time(
                                   <<<<E(1), 191789>>, <<B(1), 191789>>, <<E(2), 191789>>,
                                     <<B(2), 310000>>, <<B(8), 310000>>, <<PadC, 400000>>,
                                     <<B(3), 500000>>, <<B(7), 500000>>, <<B(4), 618000>>,
                                     <<B(6), 618000>>, <<B(5), 666000>>, <<E(5), 750000>>,
                                     <<E(6), 750000>>, <<A(4), 823636>>, <<D(5), 823636>>,
                                     <<A(5), 823636>>, <<D(6), 823636>>, <<A(6), 823636>>>>,
                                   rot) ]

(***************************************************************************)
(* util.py: the smallest enclosing circle of a touch group's pad centres.  *)
(* A circle is <<centre, radius>>; the radius of no circle (nan) is -1.    *)
(***************************************************************************)
RECURSIVE ISqrtIn(_, _, _)
ISqrtIn(n, lo, hi) ==
    IF lo >= hi THEN lo
    ELSE LET mid == (lo + hi + 1) \div 2
         IN  IF mid * mid <= n THEN ISqrtIn(n, mid, hi) ELSE ISqrtIn(n, lo, mid - 1)

\* the integer part of the square root of n, 0 <= n < 2^30
ISqrt(n) == ISqrtIn(n, 0, 32767)

\* abs(a - b) / 2
HalfDist(a, b) ==
    LET hx == Abs(a[1] - b[1]) \div 2
        hy == Abs(a[2] - b[2]) \div 2
    IN  ISqrt(hx * hx + hy * hy)

MidPoint(a, b) == <<(a[1] + b[1]) \div 2, (a[2] + b[2]) \div 2>>

\* abs(a - b) ** 2, in squared half-units (as HalfDist)
HalfDist2(a, b) ==
    LET hx == Abs(a[1] - b[1]) \div 2
        hy == Abs(a[2] - b[2]) \div 2
    IN  hx * hx + hy * hy

\* _circle3, its three early returns (a right or obtuse angle, or two equal
\* points); the weighted circumcentre of an acute triangle is not modelled
circle3(pa, pb, pc) ==
    LET a2 == HalfDist2(pb, pc)
        b2 == HalfDist2(pa, pc)
        c2 == HalfDist2(pa, pb)
    IN  CASE a2 = 0 \/ b2 + c2 - a2 <= 0 -> <<MidPoint(pb, pc), HalfDist(pb, pc)>>
          [] b2 = 0 \/ a2 + c2 - b2 <= 0 -> <<MidPoint(pa, pc), HalfDist(pa, pc)>>
          [] c2 = 0 \/ a2 + b2 - c2 <= 0 -> <<MidPoint(pa, pb), HalfDist(pa, pb)>>

\* _circle_trivial
circle_trivial(points) ==
    CASE Len(points) = 0 -> <<<<0, 0>>, -1>>
      [] Len(points) = 1 -> <<points[1], 0>>
      [] Len(points) = 2 -> <<MidPoint(points[1], points[2]), HalfDist(points[1], points[2])>>
      [] Len(points) = 3 -> circle3(points[1], points[2], points[3])

\* _welzl; the 0.001 px slack of the containment test is one length unit here
RECURSIVE welzl(_, _)
welzl(points, boundary) ==
    IF Len(points) = 0 \/ Len(boundary) = 3 THEN circle_trivial(boundary)
    ELSE LET p == Head(points)
             c == welzl(Tail(points), boundary)
         IN  IF c[2] >= 0 /\ WithinDist(p, c[1], c[2] + 1)
             THEN c
             ELSE welzl(points, Append(boundary, p))

\* get_covering_circle (the shuffle does not change the circle found)
get_covering_circle(points) == welzl(points, <<>>)

(***************************************************************************)
(* simai.py: the notes.  A note is a record of its immutable fields; its   *)
(* mutable fields (judge, judge_moment, judge_action, progress) are kept   *)
(* per note index in the variable ns.  A cursor is <<line, column>>.       *)
(***************************************************************************)
SimaiTap(cursor, moment, idx) ==
    [ kind |-> "Tap", cursor |-> cursor, moment |-> moment,
      pad |-> A(idx), idx |-> idx, is_slide_head |-> FALSE ]

SimaiHold(cursor, moment, idx, duration) ==
    [ kind |-> "Hold", cursor |-> cursor, moment |-> moment,
      pad |-> A(idx), idx |-> idx, duration |-> duration,
      end_moment |-> moment + duration, tail_on_slide_head |-> FALSE ]

SimaiTouch(cursor, moment, pad) ==
    [ kind |-> "Touch", cursor |-> cursor, moment |-> moment,
      pad |-> pad, on_slide |-> FALSE ]

SimaiTouchHold(cursor, moment, pad, duration) ==
    [ kind |-> "TouchHold", cursor |-> cursor, moment |-> moment,
      pad |-> pad, duration |-> duration, end_moment |-> moment + duration ]

SimaiTouchGroup(cursor, moment, children) ==
    LET circle == get_covering_circle([i \in DOMAIN children |-> PadVec(children[i].pad)])
    IN  [ kind |-> "TouchGroup", cursor |-> cursor, moment |-> moment,
          children |-> children, center |-> circle[1], radius |-> circle[2],
          on_slide |-> FALSE,
          \* threshold = len(children) * 0.51, kept as 100 * threshold
          threshold100 |-> Len(children) * 51 ]

\* accumulate(durations, initial = shoot_moment)
RECURSIVE Accumulate(_, _)
Accumulate(durations, initial) ==
    IF Len(durations) = 0 THEN <<initial>>
    ELSE <<initial>> \o Accumulate(Tail(durations), initial + Head(durations))

\* a variant of the loop that takes the length of the sequence so far for
\* the index at which the next segment starts
RECURSIVE ChainJoin_PastSeam(_, _, _, _, _)
ChainJoin_PastSeam(infos, k, judge_sequence, partition, segment_idx_bias) ==
    IF k > Len(infos)
    THEN [ judge_sequence |-> judge_sequence,
           partition |-> Append(partition, FALSE),
           segment_idx_bias |-> segment_idx_bias ]
    ELSE LET js == infos[k].judge_sequence
         IN  ChainJoin_PastSeam(infos, k + 1,
                 judge_sequence \o Tail(js),
                 [partition EXCEPT ![Len(partition)] = TRUE]
                     \o [i \in 1..(Len(js) - 1) |-> FALSE],
                 Append(segment_idx_bias, Len(judge_sequence)))

\* the judge_sequence / partition / segment_idx_bias loop of
\* SimaiSlideChain.__init__, over the segments from k on
RECURSIVE ChainJoin(_, _, _, _, _)
ChainJoin(infos, k, judge_sequence, partition, segment_idx_bias) ==
    IF k > Len(infos)
    THEN [ judge_sequence |-> judge_sequence,
           partition |-> Append(partition, FALSE),
           segment_idx_bias |-> segment_idx_bias ]
    ELSE LET js == infos[k].judge_sequence
         IN  ChainJoin(infos, k + 1,
                 judge_sequence \o Tail(js),
                 [partition EXCEPT ![Len(partition)] = TRUE]
                     \o [i \in 1..(Len(js) - 1) |-> FALSE],
                 Append(segment_idx_bias, Len(judge_sequence) - 1))

\* SimaiSlideChain.__init__ with `durations` given.  shapes is a sequence of
\* <<start, dist>>, the straight slide from pad start to pad start + dist, or
\* <<start, dist, cw>>, the L-shape.
\* The moments derived from critical_proportion are kept in millionths of a
\* tick (suffix _u); critical_delta is kept as 4 * critical_delta (_u4).
SlideChainOf(cursor, moment, infos, wait, durations) ==
    LET n == Len(infos)
        shoot == moment + wait
        ssm == Accumulate(durations, shoot)
        end_moment == ssm[Len(ssm)]
        lad_u == (1000000 - critical_proportion(infos[n])) * durations[n]
        first == infos[1].judge_sequence
        joined == ChainJoin(infos, 2, first, [i \in DOMAIN first |-> FALSE], <<0>>)
    IN  [ kind |-> "SlideChain", cursor |-> cursor, moment |-> moment,
          segment_infos |-> infos,
          start |-> infos[1].start, end |-> infos[n].end,
          available_moment |-> moment - SLIDE_LEADING,
          wait_duration |-> wait,
          shoot_moment |-> shoot,
          durations |-> durations,
          segment_shoot_moments |-> ssm,
          end_moment |-> end_moment,
          last_area_duration_u |-> lad_u,
          critical_moment_u |-> end_moment * 1000000 - lad_u,
          critical_delta_u4 |-> Min(4 * SLIDE_AVAILABLE * 1000000,
                                    4 * SLIDE_CRITICAL * 1000000 + lad_u),
          judge_sequence |-> joined.judge_sequence,
          partition |-> joined.partition,
          segment_idx_bias |-> joined.segment_idx_bias,
          total_area_num |-> Len(joined.judge_sequence),
          before_slide |-> FALSE, after_slide |-> FALSE ]

\* self.segment_infos = [SlideInfo.get(shape) for shape in shapes]
SegmentInfos(shapes) == [k \in DOMAIN shapes |-> ShapeInfo(shapes[k])]

\* SimaiSlideChain(cursor, moment, shapes, wait, durations)
SimaiSlideChain(cursor, moment, shapes, wait, durations) ==
    SlideChainOf(cursor, moment, SegmentInfos(shapes), wait, durations)

\* SimaiWifi.__init__
SimaiWifi(cursor, moment, start, wait, duration) ==
    LET info == WifiInfoGet(start)
        end_moment == moment + wait + duration
        lad_u == (1000000 - critical_proportion(info)) * duration
    IN  [ kind |-> "Wifi", cursor |-> cursor, moment |-> moment,
          info |-> info, start |-> info.start, end |-> info.end,
          available_moment |-> moment - SLIDE_LEADING,
          wait_duration |-> wait,
          shoot_moment |-> moment + wait,
          duration |-> duration,
          end_moment |-> end_moment,
          last_area_duration_u |-> lad_u,
          critical_moment_u |-> end_moment * 1000000 - lad_u,
          critical_delta_u4 |-> Min(4 * SLIDE_AVAILABLE * 1000000,
                                    4 * SLIDE_CRITICAL * 1000000 + lad_u),
          total_area_num |-> Len(info.tri_judge_sequence[2]),
          after_slide |-> FALSE ]

IsSimple(note) == note.kind \in {"Tap", "Hold", "Touch", "TouchHold"}
IsSlide(note) == note.kind \in {"SlideChain", "Wifi"}

\* SimaiSimpleNote._get_available_delta
get_available_delta(note) ==
    IF note.kind \in {"Tap", "Hold"} THEN TAP_AVAILABLE ELSE TOUCH_AVAILABLE

\* SimaiSimpleNote._get_critical_delta
get_critical_delta(note) ==
    IF note.kind \in {"Tap", "Hold"} THEN TAP_CRITICAL ELSE TOUCH_CRITICAL

(***************************************************************************)
(* action.py: the hand actions.  source is the index of the source note    *)
(* in the chart.  moment_u is the action's moment in millionths of a tick  *)
(* (an ExtraPadDown's delay need not be a whole number of ticks).          *)
(***************************************************************************)
ActionPress(source, moment, duration, position, radius, tailless) ==
    [ kind |-> "Press", source |-> source, moment |-> moment,
      moment_u |-> moment * 1000000,
      require_two_hands |-> (radius > HAND_RADIUS_MAX),
      position |-> position, duration |-> duration, radius |-> radius,
      end_moment |-> moment + duration + (IF tailless THEN 0 ELSE RELEASE_DELAY) ]

ActionSlide(source, moment, duration, path, radius, tailless, is_wifi) ==
    [ kind |-> "Slide", source |-> source, moment |-> moment,
      moment_u |-> moment * 1000000,
      require_two_hands |-> FALSE,
      duration |-> duration, radius |-> radius, path |-> path,
      end_moment |-> moment + duration + (IF tailless THEN 0 ELSE RELEASE_DELAY),
      is_wifi |-> is_wifi ]

\* moment_u and delay_u in millionths of a tick
ActionExtraPadDown(source, moment_u, pad, delay_u) ==
    [ kind |-> "ExtraPadDown", source |-> source,
      moment_u |-> moment_u + delay_u,
      require_two_hands |-> FALSE, pad |-> pad ]

\* SlidePath.point of a one-line path, at pos = num / den
PathPoint(path, num, den) ==
    <<path[1][1] + ((path[2][1] - path[1][1]) * num) \div den,
      path[1][2] + ((path[2][2] - path[1][2]) * num) \div den>>

\* SlidePath.tangent of a one-line path (not normalized)
PathTangent(path) == <<path[2][1] - path[1][1], path[2][2] - path[1][2]>>

NoCircle == <<>>

\* Action.update: the touch circle <<center, radius, tangent>>, or NoCircle
ActionUpdate(a, now) ==
    CASE a.kind = "Press" ->
            IF a.moment <= now /\ now < a.end_moment
            THEN <<a.position, a.radius, <<0, 0>>>>
            ELSE NoCircle
      [] a.kind = "Slide" ->
            IF a.moment <= now /\ now < a.end_moment
            THEN IF now - a.moment >= a.duration
                 THEN <<PathPoint(a.path, 1, 1), a.radius, PathTangent(a.path)>>
                 ELSE <<PathPoint(a.path, now - a.moment, a.duration), a.radius,
                        PathTangent(a.path)>>
            ELSE NoCircle
      [] a.kind = "ExtraPadDown" -> NoCircle

\* a variant of finish that retires an ExtraPadDown at its moment
ActionFinish_AtMoment(a, now) ==
    IF a.kind = "ExtraPadDown"
    THEN now * 1000000 >= a.moment_u
    ELSE now >= a.end_moment

\* Action.finish
ActionFinish(a, now) ==
    IF a.kind = "ExtraPadDown"
    THEN now * 1000000 > a.moment_u
    ELSE now >= a.end_moment

\* Action.merge_key: None ("none") for actions that never merge; slides
\* share one key and wifi slides another
merge_key(a) ==
    IF a.kind = "Slide" THEN (IF a.is_wifi THEN "wifi" ELSE "slide") ELSE "none"

(***************************************************************************)
(* majparse.py: post_parse_workup (the flags the converter reads) and      *)
(* NoteActionConverter.generate_action                                     *)
(***************************************************************************)
\* tap_on_slide_threshold is round(1 / JUDGE_TPF, 4) = 0.3333, so
\* TAP_ON_SLIDE_THRESHOLD is 0.9999 tick; in millionths of a tick
TAP_ON_SLIDE_THRESHOLD_u == JUDGE_TPF * 333300

\* post_parse_workup, for a Tap: the check for a tap-slide pair
TapIsSlideHead(chart, note) ==
    \E j \in DOMAIN chart :
        /\ IsSlide(chart[j])
        /\ note.idx = chart[j].start
        /\ Abs(note.moment - chart[j].shoot_moment) * 1000000 < TAP_ON_SLIDE_THRESHOLD_u

\* post_parse_workup, for a Hold: its tail meets a slide's head
HoldTailOnSlideHead(chart, note) ==
    \E j \in DOMAIN chart :
        /\ IsSlide(chart[j])
        /\ note.idx = chart[j].start
        /\ Abs(note.end_moment - chart[j].shoot_moment) * 1000000 < TAP_ON_SLIDE_THRESHOLD_u

\* SimaiParser._check_touch_on_slide
check_touch_on_slide(touch, slide) ==
    \/ /\ touch.pad = A(slide.start)
       /\ slide.shoot_moment * 1000000 - TAP_ON_SLIDE_THRESHOLD_u < touch.moment * 1000000
       /\ touch.moment < slide.shoot_moment + TOUCH_ON_SLIDE_THRESHOLD
    \/ \E k \in DOMAIN slide.segment_infos :
         \E e \in DOMAIN slide.segment_infos[k].pad_enter_time :
            LET pt == slide.segment_infos[k].pad_enter_time[e]
                enter_moment_u == slide.segment_shoot_moments[k] * 1000000
                                     + pt[2] * slide.durations[k]
            IN  /\ pt[1] = touch.pad
                /\ Abs(touch.moment * 1000000 - enter_moment_u)
                      < TOUCH_ON_SLIDE_THRESHOLD * 1000000

\* SimaiParser._check_touch_on_wifi
check_touch_on_wifi(touch, slide) ==
    \/ /\ touch.pad = A(slide.start)
       /\ Abs(touch.moment - slide.shoot_moment) < TOUCH_ON_SLIDE_THRESHOLD
    \/ \E e \in DOMAIN slide.info.pad_enter_time :
            LET pt == slide.info.pad_enter_time[e]
                enter_moment_u == slide.shoot_moment * 1000000 + pt[2] * slide.duration
            IN  /\ pt[1] = touch.pad
                /\ Abs(touch.moment * 1000000 - enter_moment_u)
                      < TOUCH_ON_SLIDE_THRESHOLD * 1000000

\* post_parse_workup, for a Touch: the touch is on a slide
TouchOnSlide(chart, touch) ==
    \E j \in DOMAIN chart :
        \/ chart[j].kind = "SlideChain" /\ check_touch_on_slide(touch, chart[j])
        \/ chart[j].kind = "Wifi" /\ check_touch_on_wifi(touch, chart[j])

\* post_parse_workup, for a slide chain: the standard single-stroke pair
\* (this slide ends where and when another slide shoots)
SlideBefore(chart, i) ==
    \E j \in DOMAIN chart :
        /\ j # i
        /\ IsSlide(chart[j])
        /\ chart[i].end = chart[j].start
        /\ Abs(chart[i].end_moment - chart[j].shoot_moment) * 1000000 < TAP_ON_SLIDE_THRESHOLD_u

SlideAfter(chart, j) ==
    \E i \in DOMAIN chart :
        /\ j # i
        /\ chart[i].kind = "SlideChain"
        /\ chart[i].end = chart[j].start
        /\ Abs(chart[i].end_moment - chart[j].shoot_moment) * 1000000 < TAP_ON_SLIDE_THRESHOLD_u

\* post_parse_workup: the flags of every note.  (The second single-stroke
\* rule, a slide whose end lies on another slide's path, compares positions
\* and tangents of two slides in flight and is not modelled.)
post_parse_workup(chart) ==
    [i \in DOMAIN chart |->
        CASE chart[i].kind = "Tap" ->
                [chart[i] EXCEPT !.is_slide_head = TapIsSlideHead(chart, chart[i])]
          [] chart[i].kind = "Hold" ->
                [chart[i] EXCEPT !.tail_on_slide_head = HoldTailOnSlideHead(chart, chart[i])]
          [] chart[i].kind = "Touch" ->
                [chart[i] EXCEPT !.on_slide = TouchOnSlide(chart, chart[i])]
          [] chart[i].kind = "TouchGroup" ->
                LET kids == [c \in DOMAIN chart[i].children |->
                                [chart[i].children[c] EXCEPT
                                    !.on_slide = TouchOnSlide(chart, chart[i].children[c])]]
                IN  [chart[i] EXCEPT !.children = kids,
                                     !.on_slide = \A c \in DOMAIN kids : kids[c].on_slide]
          [] chart[i].kind = "SlideChain" ->
                [chart[i] EXCEPT !.before_slide = SlideBefore(chart, i),
                                 !.after_slide = SlideAfter(chart, i)]
          [] chart[i].kind = "Wifi" ->
                [chart[i] EXCEPT !.after_slide = SlideAfter(chart, i)]
          [] OTHER -> chart[i]]

\* list.sort(key = lambda x: x.moment): a stable insertion sort
RECURSIVE InsertByMoment(_, _)
InsertByMoment(sorted, a) ==
    IF Len(sorted) = 0 THEN <<a>>
    ELSE IF sorted[Len(sorted)].moment_u <= a.moment_u THEN Append(sorted, a)
    ELSE Append(InsertByMoment(SubSeq(sorted, 1, Len(sorted) - 1), a), sorted[Len(sorted)])

RECURSIVE SortByMoment(_)
SortByMoment(s) ==
    IF Len(s) = 0 THEN <<>>
    ELSE InsertByMoment(SortByMoment(SubSeq(s, 1, Len(s) - 1)), s[Len(s)])

\* a variant in which every segment is tailless
SegmentTailless_All(note, k) == TRUE

\* the tailless argument of the k-th segment's ActionSlide: True for
\* pack[:-1], note.before_slide for pack[-1]
SegmentTailless(note, k) ==
    IF k < Len(note.segment_infos) THEN TRUE ELSE note.before_slide

\* a variant that passes over no note
Passed_Never(note) == FALSE

\* the tests before `continue`: `note.is_slide_head` of a Tap,
\* `note.on_slide` of a Touch or TouchGroup
Passed(note) ==
    IF note.kind = "Tap" THEN note.is_slide_head ELSE note.on_slide

\* the actions generate_action appends for the note at index i
NoteActions(note, i) ==
    CASE note.kind = "Tap" ->
            IF Passed(note) THEN <<>>
            ELSE <<ActionPress(i, note.moment, 0, PadVec(note.pad), HAND_RADIUS_NORMAL, FALSE)>>
      [] note.kind = "Touch" ->
            IF Passed(note) THEN <<>>
            ELSE <<ActionPress(i, note.moment, 0, PadVec(note.pad), HAND_RADIUS_NORMAL, FALSE)>>
      [] note.kind = "TouchGroup" ->
            IF Passed(note) THEN <<>>
            ELSE <<ActionPress(i, note.moment, 0, note.center, note.radius, FALSE)>>
      [] note.kind = "Hold" ->
            <<ActionPress(i, note.moment, note.duration, PadVec(note.pad),
                          HAND_RADIUS_NORMAL, note.tail_on_slide_head)>>
      [] note.kind = "TouchHold" ->
            <<ActionPress(i, note.moment, note.duration, PadVec(note.pad),
                          HAND_RADIUS_NORMAL, FALSE)>>
      [] note.kind = "SlideChain" ->
            LET n == Len(note.segment_infos)
                first_area_duration_u ==
                    note.segment_infos[1].pad_enter_time[1][2] * note.durations[1]
                delay_u == Min(EXTRA_PADDOWN_DELAY * 1000000, first_area_duration_u)
                extra == IF note.after_slide THEN <<>>
                         ELSE <<ActionExtraPadDown(i, note.shoot_moment * 1000000,
                                                   A(note.start), delay_u)>>
                segs == [k \in 1..n |->
                            ActionSlide(i, note.segment_shoot_moments[k], note.durations[k],
                                        note.segment_infos[k].path, HAND_RADIUS_NORMAL,
                                        SegmentTailless(note, k), FALSE)]
            IN  extra \o segs
      [] note.kind = "Wifi" ->
            LET first_area_duration_u == note.info.pad_enter_time[1][2] * note.duration
                delay_u == Min(EXTRA_PADDOWN_DELAY * 1000000, first_area_duration_u)
                extra == IF note.after_slide THEN <<>>
                         ELSE <<ActionExtraPadDown(i, note.shoot_moment * 1000000,
                                                   A(note.start), delay_u)>>
            IN  extra \o
                << ActionSlide(i, note.shoot_moment, note.duration,
                               note.info.di_real_path[1], HAND_RADIUS_WIFI, TRUE, TRUE),
                   ActionSlide(i, note.shoot_moment, note.duration,
                               note.info.di_real_path[2], HAND_RADIUS_WIFI, TRUE, TRUE) >>

RECURSIVE ActionsFrom(_, _)
ActionsFrom(chart, i) ==
    IF i > Len(chart) THEN <<>>
    ELSE NoteActions(chart[i], i) \o ActionsFrom(chart, i + 1)

\* NoteActionConverter.generate_action
generate_action(chart) == SortByMoment(ActionsFrom(chart, 1))

(***************************************************************************)
(* simai.py: the note state machines.  A note's mutable state is a record; *)
(* judge is "NotYet", "Critical" or "Bad"; an action is written by its     *)
(* index in the action sequence, None by 0.  pad_states and                *)
(* pad_up_this_tick are functions from Pads to actions.                    *)
(***************************************************************************)
\* SimaiNote.__init__: the mutable fields
NewSimple == [ judge |-> "NotYet", judge_moment |-> -1, judge_action |-> 0 ]

\* a variant of update that is late one tick sooner
SimpleNote_update_Sooner(n, s, now) ==
    IF s.judge # "NotYet" THEN s
    ELSE IF now - n.moment >= get_available_delta(n)
         THEN [s EXCEPT !.judge = "Bad", !.judge_moment = now]
         ELSE s

\* SimaiSimpleNote.update
SimpleNote_update(n, s, now) ==
    IF s.judge # "NotYet" THEN s
    ELSE IF now - n.moment > get_available_delta(n)
         THEN [s EXCEPT !.judge = "Bad", !.judge_moment = now]
         ELSE s

\* a variant of the judgement that is Critical at any delta
JudgeOfDelta_Always(n, delta) == "Critical"

\* the judgement on_pad_down gives for delta = now - moment
JudgeOfDelta(n, delta) ==
    IF Abs(delta) <= get_critical_delta(n) THEN "Critical" ELSE "Bad"

\* a variant of on_pad_down without the test of the window's early end
SimpleNote_on_pad_down_Early(n, s, now, pad, action) ==
    IF s.judge # "NotYet" \/ pad # n.pad THEN [st |-> s, consumed |-> FALSE]
    ELSE [st |-> [s EXCEPT !.judge_moment = now,
                           !.judge_action = action,
                           !.judge = JudgeOfDelta(n, now - n.moment)],
          consumed |-> TRUE]

\* SimaiSimpleNote.on_pad_down: the new state and the returned flag
SimpleNote_on_pad_down(n, s, now, pad, action) ==
    IF s.judge # "NotYet" THEN [st |-> s, consumed |-> FALSE]
    ELSE IF now - n.moment < -get_available_delta(n) THEN [st |-> s, consumed |-> FALSE]
    ELSE IF pad # n.pad THEN [st |-> s, consumed |-> FALSE]
    ELSE [st |-> [s EXCEPT !.judge_moment = now,
                           !.judge_action = action,
                           !.judge = JudgeOfDelta(n, now - n.moment)],
          consumed |-> TRUE]

\* SimaiTouchGroup.__init__: the mutable fields
NewTouchGroup(n) ==
    [ judge |-> "NotYet", judge_moment |-> -1, judge_action |-> 0,
      children |-> [c \in DOMAIN n.children |-> NewSimple] ]

\* a variant of the test with one half in place of 0.51
ThresholdMet_Half(n, cnt) == cnt * 2 >= Len(n.children)

\* `n >= self.threshold` with threshold = len(children) * 0.51
ThresholdMet(n, cnt) == cnt * 100 >= n.threshold100

\* SimaiTouchGroup.update
TouchGroup_update(n, s, now) ==
    LET kids == [c \in DOMAIN n.children |->
                    SimpleNote_update(n.children[c], s.children[c], now)]
        cnt == Cardinality({c \in DOMAIN kids : kids[c].judge # "NotYet"})
    IN  IF ThresholdMet(n, cnt)
        THEN [s EXCEPT !.children =
                [c \in DOMAIN kids |->
                    SimpleNote_on_pad_down(n.children[c], kids[c], now,
                                           n.children[c].pad, 0).st]]
        ELSE [s EXCEPT !.children = kids]

\* SimaiTouchGroup.on_pad_down: the children are offered the event in order
RECURSIVE GroupOffer(_, _, _, _, _, _)
GroupOffer(n, kids, c, now, pad, action) ==
    IF c > Len(kids) THEN [kids |-> kids, consumed |-> FALSE]
    ELSE LET r == SimpleNote_on_pad_down(n.children[c], kids[c], now, pad, action)
         IN  IF r.consumed
             THEN [kids |-> [kids EXCEPT ![c] = r.st], consumed |-> TRUE]
             ELSE GroupOffer(n, kids, c + 1, now, pad, action)

TouchGroup_on_pad_down(n, s, now, pad, action) ==
    LET r == GroupOffer(n, s.children, 1, now, pad, action)
    IN  [st |-> [s EXCEPT !.children = r.kids], consumed |-> r.consumed]

\* The pads of a judge area in the order the code's `for pad in area` visits
\* them.  An area is a frozenset of Pad members, whose iteration order
\* follows the string hashes of the run; rev tells which of the two orders
\* of a two-pad area this run has.
RECURSIVE AscendingPads(_)
AscendingPads(area) ==
    IF area = {} THEN <<>>
    ELSE LET m == CHOOSE p \in area : \A q \in area : p <= q
         IN  <<m>> \o AscendingPads(area \ {m})

AreaOrder(area, rev) ==
    LET asc == AscendingPads(area)
    IN  IF rev THEN [i \in DOMAIN asc |-> asc[Len(asc) + 1 - i]] ELSE asc

\* the first pad of the sequence that is pressed in `states` (or, with
\* with_up, was released this tick); NoPad when there is none
RECURSIVE FirstPressed(_, _, _, _)
FirstPressed(order, states, ups, with_up) ==
    IF Len(order) = 0 THEN NoPad
    ELSE IF states[Head(order)] # 0 \/ (with_up /\ ups[Head(order)] # 0)
         THEN Head(order)
         ELSE FirstPressed(Tail(order), states, ups, with_up)

\* SimaiSlideChain.__init__: the mutable fields.  An entry of
\* area_judge_actions is <<action, moment>>, or <<>> for None.
NewSlideChain(n) ==
    [ judge |-> "NotYet", judge_moment |-> -1, judge_action |-> 0,
      cur_area_idx |-> 0, cur_segment_idx |-> 0, pressing |-> NoPad,
      area_judge_actions |-> [i \in 1..n.total_area_num |-> <<>>] ]

\* a variant of the test that knows no L-shape
can_skip_area_NoShape(n, s) ==
    IF s.cur_area_idx >= n.total_area_num - 1 THEN FALSE
    ELSE IF s.pressing # NoPad THEN TRUE
    ELSE IF n.total_area_num >= 4 THEN TRUE
    ELSE s.cur_area_idx # n.total_area_num - 2

\* SimaiSlideChain._can_skip_area
can_skip_area(n, s) ==
    IF s.cur_area_idx >= n.total_area_num - 1 THEN FALSE
    ELSE IF s.pressing # NoPad THEN TRUE
    ELSE IF Len(n.segment_infos) = 1 /\ n.segment_infos[1].is_special_L
         THEN s.cur_area_idx # 1 /\ s.cur_area_idx # 3
    ELSE IF Len(n.segment_infos) = 1 /\ n.segment_infos[1].is_L
         THEN s.cur_area_idx # 1
    ELSE IF n.total_area_num >= 4 THEN TRUE
    ELSE s.cur_area_idx # n.total_area_num - 2

\* a variant of the test that lets every area but the last be skipped
SkipAllowed_Any(n, s) == s.cur_area_idx < n.total_area_num - 1

\* the test `if self._can_skip_area():` of _progress_slide_once
SkipAllowed(n, s) == can_skip_area(n, s)

\* a variant of the tail that moves on from every judged area at once
AfterAreaJudged_Always(n, s, action) ==
    LET s1 == [s EXCEPT !.cur_area_idx = @ + 1, !.judge_action = action]
    IN  IF s1.cur_area_idx <= n.total_area_num /\ n.partition[s1.cur_area_idx + 1]
        THEN [s1 EXCEPT !.cur_segment_idx = @ + 1]
        ELSE s1

\* the common tail of the two branches of _progress_slide_once that judge an
\* area: the last area finishes the slide, the last area of a segment moves
\* to the next segment
AfterAreaJudged(n, s, action) ==
    LET s1 == IF s.cur_area_idx >= n.total_area_num - 1
              THEN [s EXCEPT !.cur_area_idx = @ + 1, !.judge_action = action]
              ELSE s
    IN  IF n.partition[s1.cur_area_idx + 1]
        THEN [s1 EXCEPT !.cur_segment_idx = @ + 1]
        ELSE s1

\* SimaiSlideChain._progress_slide_once: the new state and the returned flag
progress_slide_once(n, s, now, states, ups, rev) ==
    LET cur  == s.cur_area_idx
        down == FirstPressed(AreaOrder(n.judge_sequence[cur + 1], rev), states, ups, FALSE)
    IN  IF s.pressing = NoPad /\ down # NoPad
        THEN [st |-> AfterAreaJudged(n,
                        [s EXCEPT !.pressing = down,
                                  !.area_judge_actions[cur + 1] = <<states[down], now>>],
                        states[down]),
              changed |-> TRUE]
        ELSE IF s.pressing # NoPad /\ states[s.pressing] = 0
        THEN [st |-> [s EXCEPT !.pressing = NoPad, !.cur_area_idx = cur + 1],
              changed |-> TRUE]
        ELSE IF SkipAllowed(n, s)
        THEN LET hit == FirstPressed(AreaOrder(n.judge_sequence[cur + 2], rev),
                                     states, ups, TRUE)
             IN  IF hit # NoPad
                 THEN [st |-> AfterAreaJudged(n,
                                [s EXCEPT !.pressing = hit,
                                          !.cur_area_idx = cur + 1,
                                          !.area_judge_actions[cur + 2] =
                                              <<(IF states[hit] # 0 THEN states[hit]
                                                 ELSE ups[hit]), now>>],
                                states[hit]),
                       changed |-> TRUE]
                 ELSE [st |-> s, changed |-> FALSE]
        ELSE [st |-> s, changed |-> FALSE]

\* the `while self.cur_area_idx < self.total_area_num` loop of update: the
\* states the loop goes through, the first being s and the last its result
RECURSIVE ProgressTrace(_, _, _, _, _, _)
ProgressTrace(n, s, now, states, ups, rev) ==
    IF s.cur_area_idx < n.total_area_num
    THEN LET r == progress_slide_once(n, s, now, states, ups, rev)
         IN  IF r.changed
             THEN <<s>> \o ProgressTrace(n, r.st, now, states, ups, rev)
             ELSE <<s>>
    ELSE <<s>>

ProgressSlide(n, s, now, states, ups, rev) ==
    LET trace == ProgressTrace(n, s, now, states, ups, rev)
    IN  trace[Len(trace)]

\* a variant of the test that takes a slide for available at any time
NotYetAvailable_Never(n, now) == FALSE

\* the test `now < self.available_moment` of a slide's update
NotYetAvailable(n, now) == now < n.available_moment

\* a variant of the test that is late one tick sooner
TooLate_Sooner(n, now) == now >= n.end_moment + SLIDE_AVAILABLE

\* the test `now > self.end_moment + SLIDE_AVAILABLE` of a slide's update
TooLate(n, now) == now > n.end_moment + SLIDE_AVAILABLE

\* a variant of the judgement without the shifted Critical window
SlideJudge_NoShift(n, now) ==
    IF Abs(now * 1000000 - n.critical_moment_u) <= n.critical_delta_u4 \div 4
    THEN "Critical" ELSE "Bad"

\* the judgement of a slide chain finished at `now`
SlideJudge(n, now) ==
    LET delta_u == now * 1000000 - n.critical_moment_u
    IN  IF \/ Abs(delta_u) <= n.critical_delta_u4 \div 4
           \/ Abs(delta_u + SLIDE_DELTA_SHIFT * 1000000) <= SLIDE_CRITICAL * 1000000
        THEN "Critical" ELSE "Bad"

\* a variant of update without the test of the judgement made
SlideChain_update_Rejudge(n, s, now, states, ups, rev) ==
    IF NotYetAvailable(n, now) THEN s
    ELSE LET s1 == ProgressSlide(n, s, now, states, ups, rev)
         IN  IF s1.cur_area_idx >= n.total_area_num
             THEN [s1 EXCEPT !.judge_moment = now, !.judge = SlideJudge(n, now)]
             ELSE IF TooLate(n, now)
             THEN [s1 EXCEPT !.judge = "Bad", !.judge_moment = now]
             ELSE s1

\* SimaiSlideChain.update
SlideChain_update(n, s, now, states, ups, rev) ==
    IF s.judge # "NotYet" THEN s
    ELSE IF NotYetAvailable(n, now) THEN s
    ELSE LET s1 == ProgressSlide(n, s, now, states, ups, rev)
         IN  IF s1.cur_area_idx >= n.total_area_num
             THEN [s1 EXCEPT !.judge_moment = now, !.judge = SlideJudge(n, now)]
             ELSE IF TooLate(n, now)
             THEN [s1 EXCEPT !.judge = "Bad", !.judge_moment = now]
             ELSE s1

\* SimaiWifi.__init__: the mutable fields (lanes 1..3 are the code's 0..2)
NewWifi(n) ==
    [ judge |-> "NotYet", judge_moment |-> -1, judge_action |-> 0,
      cur_area_idxes |-> <<0, 0, 0>>,
      pressing |-> <<NoPad, NoPad, NoPad>>,
      lane_finished |-> <<FALSE, FALSE, FALSE>>,
      area_judge_actions |-> [l \in 1..3 |-> [i \in 1..n.total_area_num |-> <<>>]],
      pad_c_passed |-> ~FLAG_WIFI_NEED_C ]

\* the common tail of the two judging branches of _progress_lane_once
AfterLaneJudged(n, s, lane, action) ==
    IF s.cur_area_idxes[lane] >= n.total_area_num - 1
    THEN [s EXCEPT !.cur_area_idxes[lane] = @ + 1,
                   !.lane_finished[lane] = TRUE,
                   !.judge_action = action]
    ELSE s

\* SimaiWifi._progress_lane_once: the new state and the returned flag
progress_lane_once(n, s, now, lane, states, ups, rev) ==
    LET cur  == s.cur_area_idxes[lane]
        seq  == n.info.tri_judge_sequence[lane]
        down == FirstPressed(AreaOrder(seq[cur + 1], rev), states, ups, FALSE)
    IN  IF s.pressing[lane] = NoPad /\ down # NoPad
        THEN [st |-> AfterLaneJudged(n,
                        [s EXCEPT !.pressing[lane] = down,
                                  !.area_judge_actions[lane][cur + 1] = <<states[down], now>>],
                        lane, states[down]),
              changed |-> TRUE]
        ELSE IF s.pressing[lane] # NoPad /\ states[s.pressing[lane]] = 0
        THEN [st |-> [s EXCEPT !.pressing[lane] = NoPad,
                               !.cur_area_idxes[lane] = cur + 1],
              changed |-> TRUE]
        ELSE IF cur < n.total_area_num - 1
        THEN LET hit == FirstPressed(AreaOrder(seq[cur + 2], rev), states, ups, TRUE)
             IN  IF hit # NoPad
                 THEN [st |-> AfterLaneJudged(n,
                                [s EXCEPT !.pressing[lane] = hit,
                                          !.cur_area_idxes[lane] = cur + 1,
                                          !.area_judge_actions[lane][cur + 2] =
                                              <<(IF states[hit] # 0 THEN states[hit]
                                                 ELSE ups[hit]), now>>],
                                lane, states[hit]),
                       changed |-> TRUE]
                 ELSE [st |-> s, changed |-> FALSE]
        ELSE [st |-> s, changed |-> FALSE]

\* the `while self.cur_area_idxes[lane] < self.total_area_num` loop
RECURSIVE ProgressLane(_, _, _, _, _, _, _)
ProgressLane(n, s, now, lane, states, ups, rev) ==
    IF s.cur_area_idxes[lane] < n.total_area_num
    THEN LET r == progress_lane_once(n, s, now, lane, states, ups, rev)
         IN  IF r.changed THEN ProgressLane(n, r.st, now, lane, states, ups, rev) ELSE s
    ELSE s

\* the judgement of a wifi finished at `now`
WifiJudge(n, now) ==
    IF Abs(now * 1000000 - n.critical_moment_u) <= n.critical_delta_u4 \div 4
    THEN "Critical" ELSE "Bad"

WifiComplete_NoC(s) == \A l \in 1..3 : s.lane_finished[l]

\* `all(self.lane_finished) and self.pad_c_passed`
WifiComplete(s) == (\A l \in 1..3 : s.lane_finished[l]) /\ s.pad_c_passed

\* SimaiWifi.update
Wifi_update(n, s, now, states, ups, rev) ==
    IF s.judge # "NotYet" THEN s
    ELSE IF NotYetAvailable(n, now) THEN s
    ELSE LET l1 == ProgressLane(n, s, now, 1, states, ups, rev)
             l2 == ProgressLane(n, l1, now, 2, states, ups, rev)
             l3 == ProgressLane(n, l2, now, 3, states, ups, rev)
             s1 == IF ~l3.pad_c_passed /\ l3.cur_area_idxes[2] > 0 /\ ups[PadC] # 0
                   THEN [l3 EXCEPT !.pad_c_passed = TRUE,
                                   !.area_judge_actions[2][3] = <<ups[PadC], now>>]
                   ELSE l3
         IN  IF WifiComplete(s1)
             THEN [s1 EXCEPT !.judge_moment = now, !.judge = WifiJudge(n, now)]
             ELSE IF TooLate(n, now)
             THEN [s1 EXCEPT !.judge = "Bad", !.judge_moment = now]
             ELSE s1

\* the mutable fields of a new note
NewNote(n) ==
    CASE n.kind = "TouchGroup" -> NewTouchGroup(n)
      [] n.kind = "SlideChain" -> NewSlideChain(n)
      [] n.kind = "Wifi" -> NewWifi(n)
      [] OTHER -> NewSimple

\* note.update
update(n, s, now, states, ups, rev) ==
    CASE n.kind = "TouchGroup" -> TouchGroup_update(n, s, now)
      [] n.kind = "SlideChain" -> SlideChain_update(n, s, now, states, ups, rev)
      [] n.kind = "Wifi" -> Wifi_update(n, s, now, states, ups, rev)
      [] OTHER -> SimpleNote_update(n, s, now)

\* note.on_pad_down (a slide does not check pad-down events)
on_pad_down(n, s, now, pad, action) ==
    CASE n.kind = "TouchGroup" -> TouchGroup_on_pad_down(n, s, now, pad, action)
      [] IsSlide(n) -> [st |-> s, consumed |-> FALSE]
      [] OTHER -> SimpleNote_on_pad_down(n, s, now, pad, action)

\* a variant of finish without the timeouts
finish_NoTimeout(n, s, now) == s.judge = "Bad"

\* note.finish
RECURSIVE finish(_, _, _)
finish(n, s, now) ==
    CASE n.kind \in {"Tap", "Touch"} -> s.judge # "NotYet"
      [] n.kind \in {"Hold", "TouchHold"} -> now > n.end_moment
      [] n.kind = "TouchGroup" ->
            \A c \in DOMAIN n.children : finish(n.children[c], s.children[c], now)
      [] IsSlide(n) -> now > n.end_moment + SLIDE_AVAILABLE \/ s.judge = "Bad"

(***************************************************************************)
(* judge.py: JudgeManager.tick, phase by phase                             *)
(***************************************************************************)
\* `for pad in Pad`: the members in definition order (A1..A8, B1..B8,
\* D1..D8, E1..E8, C), as pad values
PadEnumOrder ==
    [i \in 1..33 |-> IF i = 33 THEN PadC
                     ELSE ((i - 1) \div 8) * 8 + (i % 8)]

\* d[key] = value on a dict kept as a sequence of <<key, value>>: a new key
\* goes to the end, an old key keeps its place
DictSet(d, key, value) ==
    IF \E i \in DOMAIN d : d[i][1] = key
    THEN [i \in DOMAIN d |-> IF d[i][1] = key THEN <<key, value>> ELSE d[i]]
    ELSE Append(d, <<key, value>>)

\* a variant of the loop that activates a note one second before its moment
RECURSIVE NotesActivated_Late(_, _, _)
NotesActivated_Late(notes, ptr, now) ==
    IF ptr < Len(notes) /\ now >= notes[ptr + 1].moment - JUDGE_TPS
    THEN NotesActivated_Late(notes, ptr + 1, now)
    ELSE ptr

\* the activation loop over note_sequence[note_pointer:]
RECURSIVE NotesActivated(_, _, _)
NotesActivated(notes, ptr, now) ==
    IF ptr < Len(notes) /\ now >= notes[ptr + 1].moment - JUDGE_TPS * 2
    THEN NotesActivated(notes, ptr + 1, now)
    ELSE ptr

\* the activation loop over action_sequence[action_pointer:]
RECURSIVE ActionsActivated(_, _, _)
ActionsActivated(actions, ptr, now) ==
    IF ptr < Len(actions) /\ now * 1000000 >= actions[ptr + 1].moment_u - JUDGE_TPS * 1000000
    THEN ActionsActivated(actions, ptr + 1, now)
    ELSE ptr

\* a variant of the test that fires in every tick in which the action is
\* active
ExtraPadDownFires_Always(a, last_timer, now) == a.kind = "ExtraPadDown"

\* a variant of the test with the interval (last_timer, timer]
ExtraPadDownFires_Closed(a, last_timer, now) ==
    /\ a.kind = "ExtraPadDown"
    /\ last_timer * 1000000 < a.moment_u
    /\ a.moment_u <= now * 1000000

\* the test `last_timer <= action.moment < self.timer` of an ExtraPadDown
ExtraPadDownFires(a, last_timer, now) ==
    /\ a.kind = "ExtraPadDown"
    /\ last_timer * 1000000 <= a.moment_u
    /\ a.moment_u < now * 1000000

\* abs(tangent2 - tangent) < DELTA_TANGENT_MERGE_SLIDE = 2 sin(1.5 deg)
\* = 0.05235, that is 5.235 length units
TangentsClose(t1, t2) ==
    LET dx == Abs(t1[1] - t2[1])
        dy == Abs(t1[2] - t2[2])
    IN  dx < 6 /\ dy < 6 /\ (dx * dx + dy * dy) * 10 < 274

\* the merge loop: some touch point already kept this tick absorbs the new one
Merged(actions, touch_points, a, circle) ==
    \E i \in DOMAIN touch_points :
        LET tp == touch_points[i]
        IN  /\ merge_key(actions[tp.action]) # "none"
            /\ merge_key(a) = merge_key(actions[tp.action])
            /\ circle[3] # <<0, 0>>
            /\ tp.tangent # <<0, 0>>
            /\ StrictlyWithinDist(circle[1], tp.center, DISTANCE_MERGE_SLIDE)
            /\ TangentsClose(tp.tangent, circle[3])

\* the loop over active_actions: the ExtraPadDown events, the touch points
\* kept and the finished actions
RECURSIVE ActionLoop(_, _, _, _, _, _)
ActionLoop(actions, acts, k, last_timer, now, acc) ==
    IF k > Len(acts) THEN acc
    ELSE LET a == actions[acts[k]]
             circle == ActionUpdate(a, now)
             tp == [center |-> circle[1], radius |-> circle[2],
                    tangent |-> circle[3], action |-> acts[k]]
         IN  ActionLoop(actions, acts, k + 1, last_timer, now,
                [ down |-> IF ExtraPadDownFires(a, last_timer, now)
                           THEN DictSet(acc.down, a.pad, acts[k])
                           ELSE acc.down,
                  touch_points |->
                           IF circle = NoCircle THEN acc.touch_points
                           ELSE IF merge_key(a) = "none"
                                THEN Append(acc.touch_points, tp)
                           ELSE IF Merged(actions, acc.touch_points, a, circle)
                                THEN acc.touch_points
                           ELSE Append(acc.touch_points, tp),
                  finished |-> IF ActionFinish(a, now)
                               THEN Append(acc.finished, acts[k])
                               ELSE acc.finished ])

\* list.remove of every element of `gone` (the elements are distinct)
RemoveAll(list, gone) == SelectSeq(list, LAMBDA x : x \notin Range(gone))

\* a variant of the loop that sets the bits of the first touch point kept
\* only
NextPadState_FirstOnly(touch_points) ==
    {p \in Pads : touch_points # <<>>
                     /\ CircleHitsPad(touch_points[1].center, touch_points[1].radius, p)}

\* next_pad_state after the pad-resolution loop: `next_pad_state |= 1 <<
\* pad.value` for every pad whose disc a kept touch circle meets
NextPadState(touch_points) ==
    {p \in Pads : \E k \in DOMAIN touch_points :
                     CircleHitsPad(touch_points[k].center, touch_points[k].radius, p)}

\* a variant of the loop that tests the first touch point kept only
PadSource_FirstOnly(touch_points, k, pad) ==
    IF k = 0 THEN 0
    ELSE IF CircleHitsPad(touch_points[1].center, touch_points[1].radius, pad)
         THEN touch_points[1].action
         ELSE 0

\* pad_source_dict[pad] after the pad-resolution loop: the action of the
\* last touch point whose circle meets the pad, None (0) when there is none
RECURSIVE PadSource(_, _, _)
PadSource(touch_points, k, pad) ==
    IF k = 0 THEN 0
    ELSE IF CircleHitsPad(touch_points[k].center, touch_points[k].radius, pad)
         THEN touch_points[k].action
         ELSE PadSource(touch_points, k - 1, pad)

\* a variant of hand_count that counts one hand for every touch point
HandCount_Ones(actions, touch_points, k) == k

\* hand_count after the pad-resolution loop
RECURSIVE HandCount(_, _, _)
HandCount(actions, touch_points, k) ==
    IF k = 0 THEN 0
    ELSE HandCount(actions, touch_points, k - 1)
            + (IF actions[touch_points[k].action].require_two_hands THEN 2 ELSE 1)

\* sorted(affected_cursors): cursors compare by line, then by column
CursorLess(c, d) == c[1] < d[1] \/ (c[1] = d[1] /\ c[2] < d[2])

RECURSIVE SortedCursors(_)
SortedCursors(cursors) ==
    IF cursors = {} THEN <<>>
    ELSE LET m == CHOOSE c \in cursors : \A d \in cursors : c = d \/ CursorLess(c, d)
         IN  <<m>> \o SortedCursors(cursors \ {m})

\* "time": self.timer / JUDGE_TPS, a number of seconds kept as a fraction
RecordTime(now) == <<now, JUDGE_TPS>>

\* a variant of the test that takes no chord for reported
MuriReported_Never(cursors, reported) == FALSE

\* `muri not in self.multi_touch_muri`, negated: a MultiTouchMuri is its
\* sorted tuple of cursors, so two of them are equal when the cursor sets are
MuriReported(cursors, reported) ==
    \E seen \in reported : SortedCursors(seen) = SortedCursors(cursors)

\* a variant of the record that carries no time
MultiTouchRecord_NoTime(now, hand_count, affected_cursors) ==
    [ type |-> "MultiTouch", hand_count |-> hand_count,
      cause |-> SortedCursors(affected_cursors) ]

\* the MultiTouch record
MultiTouchRecord(now, hand_count, affected_cursors) ==
    [ time |-> RecordTime(now), type |-> "MultiTouch",
      hand_count |-> hand_count, cause |-> SortedCursors(affected_cursors) ]

\* a variant of the offering that goes on after a note has consumed the event
RECURSIVE OfferEvent_NoBreak(_, _, _, _, _, _, _)
OfferEvent_NoBreak(notes, active, k, states, now, event, offers) ==
    IF k > Len(active)
    THEN [states |-> states, consumer |-> 0, offers |-> offers]
    ELSE LET i == active[k]
             r == on_pad_down(notes[i], states[i], now, event[1], event[2])
             o == [note |-> i, event |-> event, before |-> states[i],
                   after |-> r.st, consumed |-> r.consumed]
             rest == OfferEvent_NoBreak(notes, active, k + 1,
                                        [states EXCEPT ![i] = r.st], now, event,
                                        Append(offers, o))
         IN  IF r.consumed /\ rest.consumer = 0
             THEN [rest EXCEPT !.consumer = i]
             ELSE rest

\* one pad-down event <<pad, action>> offered to the active notes in order,
\* until a note consumes it: the notes' states, the consumer (0 when there
\* is none) and the offers made
RECURSIVE OfferEvent(_, _, _, _, _, _, _)
OfferEvent(notes, active, k, states, now, event, offers) ==
    IF k > Len(active)
    THEN [states |-> states, consumer |-> 0, offers |-> offers]
    ELSE LET i == active[k]
             r == on_pad_down(notes[i], states[i], now, event[1], event[2])
             o == [note |-> i, event |-> event, before |-> states[i],
                   after |-> r.st, consumed |-> r.consumed]
         IN  IF r.consumed
             THEN [states |-> [states EXCEPT ![i] = r.st], consumer |-> i,
                   offers |-> Append(offers, o)]
             ELSE OfferEvent(notes, active, k + 1, [states EXCEPT ![i] = r.st],
                             now, event, Append(offers, o))

\* the loop over pad_down_source_dict.items()
RECURSIVE Dispatch(_, _, _, _, _, _)
Dispatch(notes, active, now, events, k, acc) ==
    IF k > Len(events) THEN acc
    ELSE LET r == OfferEvent(notes, active, 1, acc.states, now, events[k], <<>>)
         IN  Dispatch(notes, active, now, events, k + 1,
                      [states |-> r.states,
                       consumers |-> Append(acc.consumers, r.consumer),
                       offers |-> Append(acc.offers, r.offers)])

\* "judge_areas" of a SlideTooFast record of a slide chain
SlideJudgeAreas(actions, notes, n, s) ==
    [i \in 1..n.total_area_num |->
        IF s.area_judge_actions[i] = <<>>
        THEN [area |-> n.judge_sequence[i], cause |-> "skipped", time |-> -1]
        ELSE [area |-> n.judge_sequence[i],
              cause |-> notes[actions[s.area_judge_actions[i][1]].source].cursor,
              time |-> RecordTime(s.area_judge_actions[i][2])]]

\* "judge_areas" of a wifi: area 0 once, then lanes 0..2 of every area
WifiJudgeAreas(actions, notes, n, s) ==
    LET entry(j, i) ==
            IF s.area_judge_actions[j][i] = <<>>
            THEN [area |-> n.info.tri_judge_sequence[j][i], cause |-> "skipped", time |-> -1]
            ELSE [area |-> n.info.tri_judge_sequence[j][i],
                  cause |-> notes[actions[s.area_judge_actions[j][i][1]].source].cursor,
                  time |-> RecordTime(s.area_judge_actions[j][i][2])]
    IN  [k \in 1..(1 + 3 * (n.total_area_num - 1)) |->
            IF k = 1 THEN entry(1, 1)
            ELSE entry(((k - 2) % 3) + 1, ((k - 2) \div 3) + 2)]

\* a variant of the type that takes every Bad note for an overlap
SimpleMuriType_Overlap(actions, n, s) == "Overlap"

\* the "type" of the record of a Bad note that is no slide
SimpleMuriType(actions, n, s) ==
    IF s.judge_moment < n.moment
    THEN IF actions[s.judge_action].kind = "ExtraPadDown"
         THEN "SlideHeadTap" ELSE "TapOnSlide"
    ELSE "Overlap"

\* the records the retirement loop appends for one finished note: one
\* record when the note's judge is Bad, none otherwise
MuriRecords(actions, notes, i, s, now) ==
    LET n == notes[i]
    IN  IF s.judge # "Bad" THEN <<>>
        ELSE IF n.kind = "SlideChain"
        THEN << [ time |-> RecordTime(now), type |-> "SlideTooFast",
                  affected |-> n.cursor,
                  judge_areas |-> SlideJudgeAreas(actions, notes, n, s) ] >>
        ELSE IF n.kind = "Wifi"
        THEN << [ time |-> RecordTime(now), type |-> "SlideTooFast",
                  affected |-> n.cursor,
                  judge_areas |-> WifiJudgeAreas(actions, notes, n, s) ] >>
        ELSE IF s.judge_moment < n.moment
        THEN << [ time |-> RecordTime(now),
                  type |-> SimpleMuriType(actions, n, s),
                  affected |-> n.cursor,
                  cause |-> notes[actions[s.judge_action].source].cursor ] >>
        ELSE << [ time |-> RecordTime(now),
                  type |-> SimpleMuriType(actions, n, s),
                  affected |-> n.cursor ] >>

RECURSIVE RetireRecords(_, _, _, _, _, _)
RetireRecords(actions, notes, finished, k, states, now) ==
    IF k > Len(finished) THEN <<>>
    ELSE MuriRecords(actions, notes, finished[k], states[finished[k]], now)
            \o RetireRecords(actions, notes, finished, k + 1, states, now)

\* JudgeManager.tick(elapsed_time), phase by phase in the code's order; each
\* phase is handed what the phases before it computed.

\* the clock and the activation of notes and actions
TickActivation(dt) ==
    LET now == timer + dt
        np == NotesActivated(note_sequence, note_pointer, now)
        ap == ActionsActivated(action_sequence, action_pointer, now)
    IN  [ last_timer |-> timer, now |-> now, np |-> np, ap |-> ap ]

\* active_notes and active_actions after the activation
ActiveNow(active, ptr, new_ptr) == active \o [k \in 1..(new_ptr - ptr) |-> ptr + k]

\* the retirement of the finished notes, and what tick leaves and returns
TickRetire(a, notes_now, acts_now, loop, pads, events, sent, updated, finished_notes) ==
    LET next_pad_state == pads.next_pad_state
        affected_cursors ==
            {note_sequence[action_sequence[loop.touch_points[k].action].source].cursor :
                k \in DOMAIN loop.touch_points}
        new_muri == pads.hand_count > 2
                       /\ ~MuriReported(affected_cursors, multi_touch_muri)
    IN  [ timer |-> a.now,
          note_pointer |-> a.np,
          action_pointer |-> a.ap,
          active_notes |-> RemoveAll(notes_now, finished_notes),
          active_actions |-> RemoveAll(acts_now, loop.finished),
          pad_states |-> next_pad_state,
          last_pad_source |-> pads.pad_source_dict,
          multi_touch_muri |-> IF new_muri
                               THEN multi_touch_muri \cup {affected_cursors}
                               ELSE multi_touch_muri,
          muri_record_list |->
              muri_record_list
                \o (IF new_muri
                    THEN <<MultiTouchRecord(a.now, pads.hand_count, affected_cursors)>>
                    ELSE <<>>)
                \o RetireRecords(action_sequence, note_sequence, finished_notes, 1,
                                 updated, a.now),
          ns |-> updated,
          out |-> [ ticked |-> TRUE,
                    touch_points |-> loop.touch_points,
                    hand_count |-> pads.hand_count,
                    finished_notes |-> finished_notes,
                    offered_notes |-> notes_now,
                    offered_actions |-> acts_now,
                    pad_down |-> events.pad_down_source_dict,
                    pad_up |-> events.pad_up_source_dict,
                    consumers |-> sent.consumers,
                    offers |-> sent.offers ] ]

\* the notes that finish this tick
TickFinished(a, notes_now, acts_now, loop, pads, events, sent, updated) ==
    TickRetire(a, notes_now, acts_now, loop, pads, events, sent, updated,
               SelectSeq(notes_now, LAMBDA i : finish(note_sequence[i], updated[i], a.now)))

\* the update of every active note
TickUpdate(a, notes_now, acts_now, loop, pads, events, sent) ==
    TickFinished(a, notes_now, acts_now, loop, pads, events, sent,
                 [i \in DOMAIN ns |->
                     IF i \in Range(notes_now)
                     THEN update(note_sequence[i], sent.states[i], a.now,
                                 pads.pad_source_dict, events.pad_up_source_dict, hash_rev)
                     ELSE sent.states[i]])

\* a variant of the tick that updates the simple notes before it dispatches
\* the pad-down events
TickDispatch_UpdateFirst(a, notes_now, acts_now, loop, pads, events) ==
    LET pre == [i \in DOMAIN ns |->
                   IF i \in Range(notes_now) /\ IsSimple(note_sequence[i])
                   THEN SimpleNote_update(note_sequence[i], ns[i], a.now)
                   ELSE ns[i]]
        sent == Dispatch(note_sequence, notes_now, a.now, events.pad_down_source_dict, 1,
                         [states |-> pre, consumers |-> <<>>, offers |-> <<>>])
    IN  TickUpdate(a, notes_now, acts_now, loop, pads, events, sent)

\* the dispatch of the pad-down events
TickDispatch(a, notes_now, acts_now, loop, pads, events) ==
    TickUpdate(a, notes_now, acts_now, loop, pads, events,
               Dispatch(note_sequence, notes_now, a.now, events.pad_down_source_dict, 1,
                        [states |-> ns, consumers |-> <<>>, offers |-> <<>>]))

\* a variant of the entry that reports every pad pressed a tick ago as
\* released
PadUpSource_Held(pad_up_this_tick, p) ==
    IF p \in pad_states THEN last_pad_source[p] ELSE 0

\* pad_up_source_dict[pad]: `if pad_up_this_tick & (1 << pad.value):
\* pad_up_source_dict[pad] = self.last_pad_source[pad]`, None (0) otherwise
PadUpSource(pad_up_this_tick, p) ==
    IF p \in pad_up_this_tick THEN last_pad_source[p] ELSE 0

\* the pad-down and pad-up events of the tick
TickEvents(a, notes_now, acts_now, loop, pads) ==
    LET next_pad_state == pads.next_pad_state
        pad_down_this_tick == next_pad_state \ pad_states
        pad_up_this_tick == pad_states \ next_pad_state
        EdgeDown[k \in 0..33] ==
            IF k = 0 THEN loop.down
            ELSE IF PadEnumOrder[k] \in pad_down_this_tick
                 THEN DictSet(EdgeDown[k - 1], PadEnumOrder[k],
                              pads.pad_source_dict[PadEnumOrder[k]])
                 ELSE EdgeDown[k - 1]
    IN  TickDispatch(a, notes_now, acts_now, loop, pads,
                     [ pad_down_source_dict |-> EdgeDown[33],
                       pad_up_source_dict |->
                           [p \in Pads |-> PadUpSource(pad_up_this_tick, p)] ])

\* the pads the touch points press, and the hand count
TickPads(a, notes_now, acts_now, loop) ==
    TickEvents(a, notes_now, acts_now, loop,
               [ next_pad_state |-> NextPadState(loop.touch_points),
                 pad_source_dict |->
                     [p \in Pads |-> PadSource(loop.touch_points,
                                               Len(loop.touch_points), p)],
                 hand_count |-> HandCount(action_sequence, loop.touch_points,
                                          Len(loop.touch_points)) ])

\* the touch points of the tick
TickTouch(a, notes_now, acts_now) ==
    TickPads(a, notes_now, acts_now,
             ActionLoop(action_sequence, acts_now, 1, a.last_timer, a.now,
                        [down |-> <<>>, touch_points |-> <<>>, finished |-> <<>>]))

TickActivated(a) ==
    TickTouch(a, ActiveNow(active_notes, note_pointer, a.np),
                 ActiveNow(active_actions, action_pointer, a.ap))

\* The result is the record of the new field values and of what the tick
\* computed on the way (`out`).
TickResult(dt) == TickActivated(TickActivation(dt))

(***************************************************************************)
(* The charts the engine is run on.  A chart is the parser's result: the   *)
(* notes in moment order with the flags of post_parse_workup; the cursor   *)
(* of the k-th note written is <<1, k>>.                                   *)
(***************************************************************************)
Slide13(k, moment) ==
    SimaiSlideChain(<<1, k>>, moment, <<<<1, 2>>>>, SlideWait, <<SlideDuration>>)

RawCharts ==
    << \* a single tap
       << SimaiTap(<<1, 1>>, 0, 1) >>,
       \* two taps on one pad, one tick apart, and a third when the second
       \* has just left its window
       << SimaiTap(<<1, 1>>, 0, 1), SimaiTap(<<1, 2>>, 1, 1),
          SimaiTap(<<1, 3>>, 1 + TAP_AVAILABLE + 1, 1) >>,
       \* three taps at once
       << SimaiTap(<<1, 1>>, 0, 5), SimaiTap(<<1, 2>>, 0, 3), SimaiTap(<<1, 3>>, 0, 1) >>,
       \* a wide touch group and a tap at once
       << SimaiTouchGroup(<<1, 1>>, 0,
              << SimaiTouch(<<1, 1>>, 0, B(1)), SimaiTouch(<<1, 2>>, 0, PadC),
                 SimaiTouch(<<1, 3>>, 0, B(5)) >>),
          SimaiTap(<<1, 4>>, 0, 1) >>,
       \* a slide whose areas are tapped long before the star moves
       << Slide13(1, 0), SimaiTap(<<1, 2>>, 0, 1), SimaiTap(<<1, 3>>, 10, 2),
          SimaiTap(<<1, 4>>, 20, 3) >>,
       \* a slide, a tap on its start soon after the star leaves and a tap on
       \* its end soon after the star arrives
       << Slide13(1, 0), SimaiTap(<<1, 2>>, SlideWait + 30, 1),
          SimaiTap(<<1, 3>>, SlideWait + SlideDuration + 5, 3) >>,
       \* a hold, a touch hold and a tap
       << SimaiHold(<<1, 1>>, 0, 1, HoldDuration),
          SimaiTouchHold(<<1, 2>>, 0, PadC, HoldDuration),
          SimaiTap(<<1, 3>>, 5, 2) >>,
       \* two touches on one pad, two ticks apart
       << SimaiTouch(<<1, 1>>, 0, E(1)), SimaiTouch(<<1, 2>>, 2, E(1)) >>,
       \* a wifi whose lanes are touched long before the star moves
       << SimaiWifi(<<1, 1>>, 0, 1, SlideWait, SlideDuration),
          SimaiTouchGroup(<<1, 2>>, 0,
              << SimaiTouch(<<1, 2>>, 0, B(1)), SimaiTouch(<<1, 3>>, 0, PadC),
                 SimaiTouch(<<1, 4>>, 0, B(5)) >>),
          SimaiTap(<<1, 5>>, 3, 4), SimaiTap(<<1, 6>>, 3, 6) >>,
       \* a slide and a tap on its start two frames after the star leaves
       << Slide13(1, 0), SimaiTap(<<1, 2>>, SlideWait + 2 * JUDGE_TPF, 1) >>,
       \* two taps on one pad, one tick apart, and nothing else
       << SimaiTap(<<1, 1>>, 0, 1), SimaiTap(<<1, 2>>, 1, 1) >>,
       \* a tap and, one tick later, a hold shorter than its available
       \* window on the pad the tap is pressing
       << SimaiTap(<<1, 1>>, 0, 1), SimaiHold(<<1, 2>>, 1, 1, HoldDuration) >>,
       \* two touch groups on the same two pads, one tick apart
       << SimaiTouchGroup(<<1, 1>>, 0,
              << SimaiTouch(<<1, 1>>, 0, B(1)), SimaiTouch(<<1, 2>>, 0, PadC) >>),
          SimaiTouchGroup(<<1, 3>>, 1,
              << SimaiTouch(<<1, 3>>, 1, B(1)), SimaiTouch(<<1, 4>>, 1, PadC) >>) >>,
       \* a slide whose star crosses in a single tick
       << SimaiSlideChain(<<1, 1>>, 0, <<<<1, 2>>>>, SlideWait, <<1>>) >>,
       \* two slides of five ticks that leave one start pad at the same moment
       \* (1-3*-7): their ExtraPadDowns come less than a tick after the stars
       \* leave
       << SimaiSlideChain(<<1, 1>>, 0, <<<<1, 2>>>>, SlideWait, <<5>>),
          SimaiSlideChain(<<1, 2>>, 0, <<<<1, 6>>>>, SlideWait, <<5>>) >> >>

Charts == [c \in DOMAIN RawCharts |-> post_parse_workup(RawCharts[c])]
ChartActions == [c \in DOMAIN Charts |-> generate_action(Charts[c])]

(***************************************************************************)
(* The engine: JudgeManager() is constructed, load_chart is called once,   *)
(* and tick is called until every note is retired (the loop of cli.py).    *)
(***************************************************************************)
NoTick == [ ticked |-> FALSE ]

Init ==
    /\ loaded = FALSE
    /\ note_sequence = <<>>
    /\ action_sequence = <<>>
    /\ timer = -(JUDGE_TPS * 3)
    /\ note_pointer = 0
    /\ action_pointer = 0
    /\ active_notes = <<>>
    /\ active_actions = <<>>
    /\ pad_states = {}
    /\ last_pad_source = <<>>
    /\ multi_touch_muri = {}
    /\ muri_record_list = <<>>
    /\ ns = <<>>
    /\ tick_out = NoTick
    /\ hash_rev = FALSE
    /\ hs = <<>>

\* the chart has a judge area of more than one pad
HasWideArea(chart) ==
    \E i \in DOMAIN chart :
        \/ /\ chart[i].kind = "SlideChain"
           /\ \E k \in DOMAIN chart[i].judge_sequence :
                  Cardinality(chart[i].judge_sequence[k]) > 1
        \/ chart[i].kind = "Wifi"

\* JudgeManager.load_chart(note_sequence, action_sequence).  The iteration
\* order of the run matters only to a chart with an area of several pads,
\* and is drawn here for such a chart.
LoadChart ==
    /\ ~loaded
    /\ \E c \in DOMAIN Charts :
          /\ note_sequence' = Charts[c]
          /\ action_sequence' = ChartActions[c]
          /\ ns' = [i \in DOMAIN Charts[c] |-> NewNote(Charts[c][i])]
          /\ hash_rev' \in (IF HasWideArea(Charts[c]) THEN BOOLEAN ELSE {FALSE})
    /\ loaded' = TRUE
    /\ UNCHANGED <<timer, note_pointer, action_pointer, active_notes, active_actions,
                   pad_states, last_pad_source, multi_touch_muri, muri_record_list,
                   tick_out, hs>>

\* the condition of the caller's loop: some note is still to come or active
Running == note_pointer < Len(note_sequence) \/ Len(active_notes) > 0

\* the assignments of tick to the fields of the JudgeManager
TickAssign(r) ==
    /\ timer' = r.timer
    /\ note_pointer' = r.note_pointer
    /\ action_pointer' = r.action_pointer
    /\ active_notes' = r.active_notes
    /\ active_actions' = r.active_actions
    /\ pad_states' = r.pad_states
    /\ last_pad_source' = r.last_pad_source
    /\ multi_touch_muri' = r.multi_touch_muri
    /\ muri_record_list' = r.muri_record_list
    /\ ns' = r.ns
    /\ tick_out' = r.out

\* JudgeManager.tick(elapsed_time)
Tick ==
    /\ loaded
    /\ Running
    /\ \E dt \in 1..MaxDt : TickAssign(TickResult(dt))
    /\ UNCHANGED <<loaded, note_sequence, action_sequence, hash_rev, hs>>

Next == LoadChart \/ Tick

Spec == Init /\ [][Next]_vars

\* The drain loop of the callers: `while note_pointer < total or
\* len(active_notes) > 0: tick(1)`.  The loop takes its next turn whenever
\* its condition holds, and load_chart is called before it.  MaxTimer is
\* above the moment at which the last note of every chart has retired.
MaxTimer == 400

\* the loop's condition
Looping == loaded /\ Running /\ timer < MaxTimer

Tick1 ==
    /\ Looping
    /\ TickAssign(TickResult(1))
    /\ UNCHANGED <<loaded, note_sequence, action_sequence, hash_rev, hs>>

NextDrain == LoadChart \/ Tick1

\* WF_vars(Tick1) written out: tick advances the timer, so
\* ENABLED <<Tick1>>_vars is Looping
FairTick == []<>(~Looping) \/ []<><<Tick1>>_vars

SpecDrain == Init /\ [][NextDrain]_vars /\ WF_vars(LoadChart) /\ FairTick

(***************************************************************************)
(* The slide harness: one slide chain or wifi, on which update is called   *)
(* at increasing moments with pad maps of any shape.  As in tick, a pad    *)
(* that was pressed at the last call and is not pressed now is in          *)
(* pad_up_this_tick with its last source.                                  *)
(***************************************************************************)
SlideNotes ==
    << Slide13(1, 0),
       SimaiSlideChain(<<1, 1>>, 0, <<<<1, 4>>>>, SlideWait, <<SlideDuration>>),
       SimaiWifi(<<1, 1>>, 0, 1, SlideWait, SlideDuration) >>

\* the L-shapes of the harness: 1V72 and 1V74 (six areas), 1V75 (special,
\* five areas) and the reflected 1V35 (special)
LNotes ==
    << SimaiSlideChain(<<1, 1>>, 0, <<<<1, 1, FALSE>>>>, SlideWait, <<SlideDuration>>),
       SimaiSlideChain(<<1, 1>>, 0, <<<<1, 3, FALSE>>>>, SlideWait, <<SlideDuration>>),
       SimaiSlideChain(<<1, 1>>, 0, <<<<1, 4, FALSE>>>>, SlideWait, <<SlideDuration>>),
       SimaiSlideChain(<<1, 1>>, 0, <<<<1, 4, TRUE>>>>, SlideWait, <<SlideDuration>>) >>

HarnessNotes == SlideNotes \o LNotes

\* the number of calls of update on an L-shape
LSteps == 2

\* the number of calls of update on the k-th note of the harness
StepBound(k) == IF k > Len(SlideNotes) THEN LSteps ELSE MaxSteps

\* the pads of the j-th judge area (of every lane of a wifi)
Level(n, j) ==
    IF n.kind = "SlideChain"
    THEN n.judge_sequence[j]
    ELSE UNION {n.info.tri_judge_sequence[l][j] : l \in 1..3}

\* the sets of pads the harness presses at a time: none, one judge area,
\* two consecutive judge areas or, on a slide chain, one pad of an area
Gestures(n) ==
    {{}} \cup {Level(n, j) : j \in 1..n.total_area_num}
         \cup {Level(n, j) \cup Level(n, j + 1) : j \in 1..(n.total_area_num - 1)}
         \cup (IF n.kind = "SlideChain"
               THEN {{p} : p \in UNION Range(n.judge_sequence)}
               ELSE {})

\* the moments of the first call: shortly before the slide becomes
\* available, before each end of the Critical window, before the timeout
StartMoments(n) ==
    LET cm == n.critical_moment_u \div 1000000
    IN  { n.available_moment - 2,
          cm - (SLIDE_CRITICAL + SLIDE_DELTA_SHIFT) - 2,
          cm + (n.critical_delta_u4 \div 4000000) - 1,
          n.end_moment + SLIDE_AVAILABLE - 2 }

NoPads == [p \in Pads |-> 0]

InitSlide ==
    /\ loaded = FALSE
    /\ note_sequence = <<>>
    /\ action_sequence = <<>>
    /\ timer = -(JUDGE_TPS * 3)
    /\ note_pointer = 0
    /\ action_pointer = 0
    /\ active_notes = <<>>
    /\ active_actions = <<>>
    /\ pad_states = {}
    /\ last_pad_source = <<>>
    /\ multi_touch_muri = {}
    /\ muri_record_list = <<>>
    /\ ns = <<>>
    /\ tick_out = NoTick
    /\ \E k \in DOMAIN SlideNotes :
         /\ hash_rev \in (IF HasWideArea(<<SlideNotes[k]>>) THEN BOOLEAN ELSE {FALSE})
         /\ \E t \in StartMoments(SlideNotes[k]) :
               hs = [ k |-> k, now |-> t - 1, steps |-> 0,
                      pad_states |-> NoPads,
                      st |-> NewNote(SlideNotes[k]),
                      passed |-> {} ]

\* the areas the loop of update passed over without an entry in
\* area_judge_actions, each with what _can_skip_area returned at that time
PassedOver(n, trace) ==
    { <<ij[1], can_skip_area(n, trace[ij[2]])>> :
        ij \in { ij \in (0..(n.total_area_num - 1)) \X (1..(Len(trace) - 1)) :
                   /\ trace[ij[2]].cur_area_idx <= ij[1]
                   /\ ij[1] < trace[ij[2] + 1].cur_area_idx
                   /\ trace[ij[2] + 1].area_judge_actions[ij[1] + 1] = <<>> } }

\* pad_up_this_tick when the pads `pressed` follow the pad map `last`
PadUps(last, pressed) ==
    [p \in Pads |-> IF last[p] # 0 /\ p \notin pressed THEN last[p] ELSE 0]

\* note.update(now, pad_states, pad_up_this_tick) of the harness's note; the
\* pads pressed at the k-th call are pressed by action k
UpdateSlide ==
    /\ hs # <<>>
    /\ hs.steps < StepBound(hs.k)
    /\ \E dt \in 1..MaxDt :
       \E pressed \in Gestures(HarnessNotes[hs.k]) :
          LET n == HarnessNotes[hs.k]
              now == hs.now + dt
              states == [p \in Pads |-> IF p \in pressed THEN hs.steps + 1 ELSE 0]
              ups == PadUps(hs.pad_states, pressed)
              trace == IF n.kind = "SlideChain" /\ hs.st.judge = "NotYet"
                          /\ now >= n.available_moment
                       THEN ProgressTrace(n, hs.st, now, states, ups, hash_rev)
                       ELSE <<>>
          IN  hs' = [hs EXCEPT !.now = now,
                               !.steps = @ + 1,
                               !.pad_states = states,
                               !.st = update(n, hs.st, now, states, ups, hash_rev),
                               !.passed = @ \cup PassedOver(n, trace)]
    /\ UNCHANGED <<loaded, note_sequence, action_sequence, timer, note_pointer,
                   action_pointer, active_notes, active_actions, pad_states,
                   last_pad_source, multi_touch_muri, muri_record_list, ns,
                   tick_out, hash_rev>>

NextSlide == UpdateSlide

SpecSlide == InitSlide /\ [][NextSlide]_vars

\* the wifi of the harness under either value of wifi_need_c in the
\* configuration file: pad_c_passed starts as `not FLAG_WIFI_NEED_C`
InitWifi ==
    /\ loaded = FALSE
    /\ note_sequence = <<>>
    /\ action_sequence = <<>>
    /\ timer = -(JUDGE_TPS * 3)
    /\ note_pointer = 0
    /\ action_pointer = 0
    /\ active_notes = <<>>
    /\ active_actions = <<>>
    /\ pad_states = {}
    /\ last_pad_source = <<>>
    /\ multi_touch_muri = {}
    /\ muri_record_list = <<>>
    /\ ns = <<>>
    /\ tick_out = NoTick
    /\ hash_rev \in (IF HasWideArea(<<SlideNotes[3]>>) THEN BOOLEAN ELSE {FALSE})
    /\ \E need_c \in BOOLEAN :
       \E t \in StartMoments(SlideNotes[3]) :
          hs = [ k |-> 3, now |-> t - 1, steps |-> 0,
                 pad_states |-> NoPads,
                 st |-> [NewWifi(SlideNotes[3]) EXCEPT !.pad_c_passed = ~need_c],
                 passed |-> {},
                 need_c |-> need_c ]

SpecWifi == InitWifi /\ [][NextSlide]_vars

\* the L-shapes of the harness
InitL ==
    /\ loaded = FALSE
    /\ note_sequence = <<>>
    /\ action_sequence = <<>>
    /\ timer = -(JUDGE_TPS * 3)
    /\ note_pointer = 0
    /\ action_pointer = 0
    /\ active_notes = <<>>
    /\ active_actions = <<>>
    /\ pad_states = {}
    /\ last_pad_source = <<>>
    /\ multi_touch_muri = {}
    /\ muri_record_list = <<>>
    /\ ns = <<>>
    /\ tick_out = NoTick
    /\ \E k \in (Len(SlideNotes) + 1)..Len(HarnessNotes) :
         /\ hash_rev \in (IF HasWideArea(<<HarnessNotes[k]>>) THEN BOOLEAN ELSE {FALSE})
         /\ \E t \in StartMoments(HarnessNotes[k]) :
               hs = [ k |-> k, now |-> t - 1, steps |-> 0,
                      pad_states |-> NoPads,
                      st |-> NewNote(HarnessNotes[k]),
                      passed |-> {} ]

SpecL == InitL /\ [][NextSlide]_vars

(***************************************************************************)
(* judge.py: StaticMuriChecker.  A record is kept with the cursors of its  *)
(* two notes; delta and the moments of the collide entries are in          *)
(* millionths of a tick.                                                   *)
(***************************************************************************)
overlay_threshold == 2
collide_threshold == 12

\* a variant of the threshold that takes the configured number for ticks
OVERLAY_THRESHOLD_Ticks == overlay_threshold

OVERLAY_THRESHOLD == JUDGE_TPF * overlay_threshold
COLLIDE_THRESHOLD == JUDGE_TPF * collide_threshold
COLLIDE_EXTRA_DELTA == COLLIDE_THRESHOLD - TAP_AVAILABLE

\* the concatenation of a sequence of sequences
RECURSIVE Concat(_)
Concat(seqs) == IF Len(seqs) = 0 THEN <<>> ELSE Head(seqs) \o Concat(Tail(seqs))

\* StaticMuriChecker._flatten_touch_group
flatten_touch_group(chart) ==
    Concat([i \in DOMAIN chart |->
              IF chart[i].kind = "TouchGroup"
              THEN chart[i].children
              ELSE <<chart[i]>>])

overlap_record(note, note2) ==
    [ type |-> "Overlap", affected |-> note.cursor, cause |-> note2.cursor ]

tap_on_slide_record(note, slide, delta_u) ==
    [ type |-> "TapOnSlide", affected |-> note.cursor, cause |-> slide.cursor,
      delta_u |-> delta_u ]

slide_head_tap_record(note, slide, delta_u) ==
    [ type |-> "SlideHeadTap", affected |-> note.cursor, cause |-> slide.cursor,
      delta_u |-> delta_u ]

\* the collide entries of the k-th segment: one for each group-A pad of
\* pad_enter_time, with enter_moment = moment + t * duration
SegmentEntries(slide, k) ==
    LET in_a(e) == is_group_a(e[1])
        entered == SelectSeq(slide.segment_infos[k].pad_enter_time, in_a)
        enter_u(e) == slide.segment_shoot_moments[k] * 1000000 + e[2] * slide.durations[k]
    IN  [i \in DOMAIN entered |->
           [ pad |-> entered[i][1],
             moment_u |-> enter_u(entered[i]),
             start_u |-> Max(enter_u(entered[i]) - COLLIDE_EXTRA_DELTA * 1000000,
                             slide.shoot_moment * 1000000 + TAP_ON_SLIDE_THRESHOLD_u),
             end_u |-> enter_u(entered[i]) + COLLIDE_THRESHOLD * 1000000 ]]

\* collide_entries of a slide chain
CollideEntries(slide) ==
    Concat([k \in DOMAIN slide.segment_infos |-> SegmentEntries(slide, k)])

\* `note.moment < slide.shoot_moment or note.moment > slide.end_moment +
\* COLLIDE_THRESHOLD`, and the isinstance test before it
OutOfSlide(slide, note) ==
    \/ note.kind \notin {"Tap", "Hold"}
    \/ note.moment < slide.shoot_moment
    \/ note.moment > slide.end_moment + COLLIDE_THRESHOLD

\* a variant of the test with the right end left out
HeadTapped_Strict(slide, note) ==
    /\ note.idx = slide.start
    /\ TAP_ON_SLIDE_THRESHOLD_u <= (note.moment - slide.shoot_moment) * 1000000
    /\ note.moment - slide.shoot_moment < COLLIDE_THRESHOLD

\* the test of the slide-head tap
HeadTapped(slide, note) ==
    /\ note.idx = slide.start
    /\ TAP_ON_SLIDE_THRESHOLD_u <= (note.moment - slide.shoot_moment) * 1000000
    /\ note.moment - slide.shoot_moment <= COLLIDE_THRESHOLD

\* `pad == note.pad and start <= note.moment <= end`
InCollideEntry(entry, note) ==
    /\ entry.pad = note.pad
    /\ entry.start_u <= note.moment * 1000000
    /\ note.moment * 1000000 <= entry.end_u

\* a variant of the check without the stretch of the last area's interval
InFinalStretch_Never(slide, note) == FALSE

\* the stretch of the last area's interval to the end of the star
InFinalStretch(slide, note) ==
    /\ note.pad = PadOf(0, slide.end)
    /\ slide.critical_moment_u + COLLIDE_THRESHOLD * 1000000 < note.moment * 1000000
    /\ note.moment <= slide.end_moment + COLLIDE_EXTRA_DELTA

\* the records of one slide chain and one note
SlideNoteRecords(slide, note) ==
    IF OutOfSlide(slide, note) THEN <<>>
    ELSE (IF HeadTapped(slide, note)
          THEN <<slide_head_tap_record(note, slide,
                     (slide.shoot_moment - note.moment) * 1000000)>>
          ELSE <<>>)
         \o Concat([k \in DOMAIN CollideEntries(slide) |->
                      IF InCollideEntry(CollideEntries(slide)[k], note)
                      THEN <<tap_on_slide_record(note, slide,
                                 CollideEntries(slide)[k].moment_u - note.moment * 1000000)>>
                      ELSE <<>>])
         \o (IF InFinalStretch(slide, note)
             THEN <<tap_on_slide_record(note, slide,
                        slide.critical_moment_u - note.moment * 1000000)>>
             ELSE <<>>)

\* the interval of a wifi's end: `start <= note.moment <= end` on the pads
\* at and beside the end
InWifiEnd(wifi, note) ==
    /\ note.idx % 8 \in {wifi.end % 8, (wifi.end + 1) % 8, (wifi.end - 1) % 8}
    /\ Max(wifi.critical_moment_u - COLLIDE_EXTRA_DELTA * 1000000,
           wifi.shoot_moment * 1000000 + TAP_ON_SLIDE_THRESHOLD_u)
          <= note.moment * 1000000
    /\ note.moment * 1000000
          <= Max(wifi.critical_moment_u + COLLIDE_THRESHOLD * 1000000,
                 (wifi.end_moment + COLLIDE_EXTRA_DELTA) * 1000000)

\* the records of one wifi and one note
WifiNoteRecords(wifi, note) ==
    IF OutOfSlide(wifi, note) THEN <<>>
    ELSE (IF HeadTapped(wifi, note)
          THEN <<slide_head_tap_record(note, wifi,
                     (wifi.shoot_moment - note.moment) * 1000000)>>
          ELSE <<>>)
         \o (IF InWifiEnd(wifi, note)
             THEN <<tap_on_slide_record(note, wifi,
                        wifi.critical_moment_u - note.moment * 1000000)>>
             ELSE <<>>)

\* a variant of the test with the threshold itself left out
MomentsClose_Strict(note, note2) == Abs(note.moment - note2.moment) < OVERLAY_THRESHOLD

\* `abs(note.moment - note2.moment) <= OVERLAY_THRESHOLD`
MomentsClose(note, note2) == Abs(note.moment - note2.moment) <= OVERLAY_THRESHOLD

\* `note2.moment - OVERLAY_THRESHOLD <= note.moment <= note2.end_moment +
\* OVERLAY_THRESHOLD`
InHold(note, note2) ==
    /\ note2.moment - OVERLAY_THRESHOLD <= note.moment
    /\ note.moment <= note2.end_moment + OVERLAY_THRESHOLD

\* a variant of the test that takes a pair of taps or of holds in either order
Overlaps_EitherOrder(note, note2, i, j) ==
    /\ i # j
    /\ note.pad = note2.pad
    /\ IF note.kind \in {"Tap", "Touch"}
       THEN IF note2.kind \in {"Tap", "Touch"}
            THEN MomentsClose(note, note2)
            ELSE note2.kind \in {"Hold", "TouchHold"} /\ InHold(note, note2)
       ELSE /\ note.kind \in {"Hold", "TouchHold"}
            /\ note2.kind \in {"Hold", "TouchHold"}
            /\ (InHold(note, note2) \/ InHold(note2, note))

\* the body of the overlap loops: the i-th and j-th of non_slides give a record
Overlaps(note, note2, i, j) ==
    /\ i # j
    /\ IF note.kind \in {"Tap", "Touch"}
       THEN IF note2.kind \in {"Tap", "Touch"}
            THEN i < j /\ note.pad = note2.pad /\ MomentsClose(note, note2)
            ELSE /\ note2.kind \in {"Hold", "TouchHold"}
                 /\ note.pad = note2.pad
                 /\ InHold(note, note2)
       ELSE /\ note.kind \in {"Hold", "TouchHold"}
            /\ note2.kind \in {"Hold", "TouchHold"}
            /\ i < j
            /\ note.pad = note2.pad
            /\ (InHold(note, note2) \/ InHold(note2, note))

\* the records of the overlap loops, i outer and j inner
OverlapRecords(non_slides) ==
    Concat([k \in 1..(Len(non_slides) * Len(non_slides)) |->
              LET i == ((k - 1) \div Len(non_slides)) + 1
                  j == ((k - 1) % Len(non_slides)) + 1
              IN  IF Overlaps(non_slides[i], non_slides[j], i, j)
                  THEN <<overlap_record(non_slides[i], non_slides[j])>>
                  ELSE <<>>])

\* the records of `for slide in slides: ... for note in non_slides`
SlideRecords(slides, non_slides) ==
    Concat([k \in 1..(Len(slides) * Len(non_slides)) |->
              SlideNoteRecords(slides[((k - 1) \div Len(non_slides)) + 1],
                               non_slides[((k - 1) % Len(non_slides)) + 1])])

\* the records of `for wifi in wifis: for note in non_slides`
WifiRecords(wifis, non_slides) ==
    Concat([k \in 1..(Len(wifis) * Len(non_slides)) |->
              WifiNoteRecords(wifis[((k - 1) \div Len(non_slides)) + 1],
                              non_slides[((k - 1) % Len(non_slides)) + 1])])

\* StaticMuriChecker.check: muri_records
check(chart) ==
    LET flatten == flatten_touch_group(chart)
        is_chain(n) == n.kind = "SlideChain"
        is_wifi(n) == n.kind = "Wifi"
        is_other(n) == ~IsSlide(n)
    IN  SlideRecords(SelectSeq(flatten, is_chain), SelectSeq(flatten, is_other))
        \o WifiRecords(SelectSeq(flatten, is_wifi), SelectSeq(flatten, is_other))
        \o OverlapRecords(SelectSeq(flatten, is_other))

(***************************************************************************)
(* The static check: StaticMuriChecker.check is called once on a chart.    *)
(* The charts are a slide with a note at any moment about it, two simple   *)
(* notes of any kinds in either order, and a few charts with a touch group *)
(* or three notes.                                                         *)
(***************************************************************************)
ShortDuration == 20
LongDuration == 160
PairSpan == 60

StaticSlides ==
    << SimaiSlideChain(<<1, 1>>, 0, <<<<1, 2>>>>, SlideWait, <<ShortDuration>>),
       SimaiSlideChain(<<1, 1>>, 0, <<<<1, 2>>>>, SlideWait, <<SlideDuration>>),
       SimaiSlideChain(<<1, 1>>, 0, <<<<1, 2>>>>, SlideWait, <<LongDuration>>),
       SimaiSlideChain(<<1, 1>>, 0, <<<<1, 2>>, <<3, 2>>>>, SlideWait,
                       <<ShortDuration, SlideDuration>>),
       SimaiWifi(<<1, 1>>, 0, 1, SlideWait, SlideDuration) >>

\* a simple note of a kind on pad A<idx>
SimpleOfKind(kind, cursor, moment, idx) ==
    CASE kind = "Tap" -> SimaiTap(cursor, moment, idx)
      [] kind = "Hold" -> SimaiHold(cursor, moment, idx, HoldDuration)
      [] kind = "Touch" -> SimaiTouch(cursor, moment, A(idx))
      [] kind = "TouchHold" -> SimaiTouchHold(cursor, moment, A(idx), HoldDuration)

SlideCharts ==
    { <<StaticSlides[k], SimpleOfKind(kind, <<1, 2>>, m, idx)>> :
        k \in DOMAIN StaticSlides, kind \in {"Tap", "Hold", "Touch"}, idx \in 1..6,
        m \in (SlideWait - 2)..(SlideWait + LongDuration + COLLIDE_THRESHOLD + 2) }

PairCharts ==
    { <<SimpleOfKind(kind1, <<1, 1>>, PairSpan \div 2, 1),
        SimpleOfKind(kind2, <<1, 2>>, m, idx)>> :
        kind1 \in {"Tap", "Hold", "Touch", "TouchHold"},
        kind2 \in {"Tap", "Hold", "Touch", "TouchHold"},
        idx \in 1..2, m \in 0..PairSpan }

GroupCharts ==
    { << SimaiTouchGroup(<<1, 1>>, 10,
             << SimaiTouch(<<1, 1>>, 10, B(1)), SimaiTouch(<<1, 2>>, 10, PadC) >>),
         SimaiTouch(<<1, 3>>, m, PadC),
         SimaiTouchHold(<<1, 4>>, 10, PadC, HoldDuration) >> : m \in 0..20 }
    \cup { << SimaiTap(<<1, 1>>, 10, 1), SimaiHold(<<1, 2>>, 10, 1, HoldDuration),
              SimaiTap(<<1, 3>>, m, 1) >> : m \in 0..20 }

StaticCharts == SlideCharts \cup PairCharts \cup GroupCharts

InitStatic ==
    /\ loaded = FALSE
    /\ note_sequence = <<>>
    /\ action_sequence = <<>>
    /\ timer = -(JUDGE_TPS * 3)
    /\ note_pointer = 0
    /\ action_pointer = 0
    /\ active_notes = <<>>
    /\ active_actions = <<>>
    /\ pad_states = {}
    /\ last_pad_source = <<>>
    /\ multi_touch_muri = {}
    /\ muri_record_list = <<>>
    /\ ns = <<>>
    /\ tick_out = NoTick
    /\ hash_rev = FALSE
    /\ \E chart \in StaticCharts :
          hs = [ chart |-> chart, checked |-> FALSE, records |-> <<>> ]

\* static_records = StaticMuriChecker.check(chart)
StaticCheck ==
    /\ hs # <<>>
    /\ ~hs.checked
    /\ hs' = [hs EXCEPT !.checked = TRUE, !.records = check(hs.chart)]
    /\ UNCHANGED <<loaded, note_sequence, action_sequence, timer, note_pointer,
                   action_pointer, active_notes, active_actions, pad_states,
                   last_pad_source, multi_touch_muri, muri_record_list, ns,
                   tick_out, hash_rev>>

NextStatic == StaticCheck

SpecStatic == InitStatic /\ [][NextStatic]_vars

(***************************************************************************)
(* The conversion of a chart with a slide chain: generate_action is called *)
(* once.  The chain has 1..MaxSegments segments of either duration, any    *)
(* before_slide and after_slide, and a tap before or after it.             *)
(***************************************************************************)
MaxSegments == 3

\* the shapes of a chain of n segments: from pad 1 by first_dist, then on by
\* two pads a segment
ChainShapes(first_dist, n) ==
    [k \in 1..n |-> IF k = 1 THEN <<1, first_dist>>
                    ELSE <<((first_dist + 2 * (k - 2)) % 8) + 1, 2>>]

\* a chain as post_parse_workup leaves it, with its two flags set
FlaggedChain(first_dist, durations, before, after) ==
    [SimaiSlideChain(<<1, 1>>, 0, ChainShapes(first_dist, Len(durations)),
                     SlideWait, durations)
        EXCEPT !.before_slide = before, !.after_slide = after]

ChainCharts ==
    { IF tap_first
      THEN <<SimaiTap(<<1, 2>>, SlideWait, 5), FlaggedChain(d, durs, b, a)>>
      ELSE <<FlaggedChain(d, durs, b, a), SimaiTap(<<1, 2>>, SlideWait, 5)>> :
        tap_first \in BOOLEAN, d \in 2..4,
        durs \in UNION {[1..n -> {ShortDuration, SlideDuration}] : n \in 1..MaxSegments},
        b \in BOOLEAN, a \in BOOLEAN }

\* a tap about the moment a one-segment chain shoots from its pad, as
\* post_parse_workup flags the two, in either order
HeadCharts ==
    { post_parse_workup(
        IF tap_first
        THEN <<SimaiTap(<<1, 1>>, SlideWait + d, 1),
               SimaiSlideChain(<<1, 2>>, 0, <<<<1, dist>>>>, SlideWait, <<dur>>)>>
        ELSE <<SimaiSlideChain(<<1, 1>>, 0, <<<<1, dist>>>>, SlideWait, <<dur>>),
               SimaiTap(<<1, 2>>, SlideWait + d, 1)>>) :
        tap_first \in BOOLEAN, d \in {-1, 0, 1}, dist \in 2..4,
        dur \in {ShortDuration, SlideDuration} }

\* a tap, a touch and a touch group with any values of their flags, and a
\* chain
FlagCharts ==
    { << [SimaiTap(<<1, 1>>, SlideWait, 1) EXCEPT !.is_slide_head = head],
         FlaggedChain(2, <<SlideDuration>>, FALSE, after),
         [SimaiTouch(<<1, 3>>, SlideWait + 10, B(2)) EXCEPT !.on_slide = touch_on],
         [SimaiTouchGroup(<<1, 4>>, SlideWait + 20,
              << SimaiTouch(<<1, 4>>, SlideWait + 20, B(3)),
                 SimaiTouch(<<1, 5>>, SlideWait + 20, PadC) >>)
            EXCEPT !.on_slide = group_on] >> :
        head \in BOOLEAN, after \in BOOLEAN, touch_on \in BOOLEAN, group_on \in BOOLEAN }

InitActions ==
    /\ loaded = FALSE
    /\ note_sequence = <<>>
    /\ action_sequence = <<>>
    /\ timer = -(JUDGE_TPS * 3)
    /\ note_pointer = 0
    /\ action_pointer = 0
    /\ active_notes = <<>>
    /\ active_actions = <<>>
    /\ pad_states = {}
    /\ last_pad_source = <<>>
    /\ multi_touch_muri = {}
    /\ muri_record_list = <<>>
    /\ ns = <<>>
    /\ tick_out = NoTick
    /\ hash_rev = FALSE
    /\ \E chart \in ChainCharts \cup HeadCharts \cup FlagCharts :
          hs = [ chart |-> chart, generated |-> FALSE, actions |-> <<>> ]

\* actions = NoteActionConverter.generate_action(chart)
GenerateActions ==
    /\ hs # <<>>
    /\ ~hs.generated
    /\ hs' = [hs EXCEPT !.generated = TRUE, !.actions = generate_action(hs.chart)]
    /\ UNCHANGED <<loaded, note_sequence, action_sequence, timer, note_pointer,
                   action_pointer, active_notes, active_actions, pad_states,
                   last_pad_source, multi_touch_muri, muri_record_list, ns,
                   tick_out, hash_rev>>

NextActions == GenerateActions

SpecActions == InitActions /\ [][NextActions]_vars

(***************************************************************************)
(* The touch group harness: one touch group of 1..MaxChildren children, on *)
(* which the engine's step is taken: the pad-down events of the tick are   *)
(* offered to the group in the order of `for pad in Pad`, then update is   *)
(* called.                                                                 *)
(***************************************************************************)
MaxChildren == 4
GroupSteps == 2

\* pads in the order of `for pad in Pad`; a group has the first ones
GroupPads == <<B(1), B(3), B(5), B(7), PadC>>

GroupNotes ==
    [k \in 1..MaxChildren |->
        SimaiTouchGroup(<<1, 1>>, 0,
            [c \in 1..k |-> SimaiTouch(<<1, c>>, 0, GroupPads[c])])]

\* the moments of the first step: before the window opens, at the moment,
\* before the window closes
GroupStartMoments == {-TOUCH_AVAILABLE - 1, 0, TOUCH_AVAILABLE - 1}

InitGroup ==
    /\ loaded = FALSE
    /\ note_sequence = <<>>
    /\ action_sequence = <<>>
    /\ timer = -(JUDGE_TPS * 3)
    /\ note_pointer = 0
    /\ action_pointer = 0
    /\ active_notes = <<>>
    /\ active_actions = <<>>
    /\ pad_states = {}
    /\ last_pad_source = <<>>
    /\ multi_touch_muri = {}
    /\ muri_record_list = <<>>
    /\ ns = <<>>
    /\ tick_out = NoTick
    /\ hash_rev = FALSE
    /\ \E k \in DOMAIN GroupNotes :
       \E t \in GroupStartMoments :
          hs = [ g |-> k, now |-> t - 1, steps |-> 0,
                 st |-> NewNote(GroupNotes[k]) ]

\* the pad-down events on the pads `downs` offered to the group, from the
\* c-th pad of GroupPads on
RECURSIVE OfferDowns(_, _, _, _, _, _)
OfferDowns(n, s, now, downs, c, action) ==
    IF c > Len(GroupPads) THEN s
    ELSE OfferDowns(n,
                    IF GroupPads[c] \in downs
                    THEN on_pad_down(n, s, now, GroupPads[c], action).st
                    ELSE s,
                    now, downs, c + 1, action)

\* one tick on the group: on_pad_down for every pad pressed at this tick,
\* then update
TickGroup ==
    /\ hs # <<>>
    /\ hs.steps < GroupSteps
    /\ \E dt \in 1..MaxDt :
       \E downs \in SUBSET {GroupPads[c] : c \in 1..MaxChildren} :
          LET n == GroupNotes[hs.g]
              now == hs.now + dt
              offered == OfferDowns(n, hs.st, now, downs, 1, hs.steps + 1)
          IN  hs' = [hs EXCEPT !.now = now,
                               !.steps = @ + 1,
                               !.st = update(n, offered, now, NoPads, NoPads, hash_rev)]
    /\ UNCHANGED <<loaded, note_sequence, action_sequence, timer, note_pointer,
                   action_pointer, active_notes, active_actions, pad_states,
                   last_pad_source, multi_touch_muri, muri_record_list, ns,
                   tick_out, hash_rev>>

NextGroup == TickGroup

SpecGroup == InitGroup /\ [][NextGroup]_vars

(***************************************************************************)
(* Properties of the simple notes (Tap, Hold, Touch, TouchHold)            *)
(***************************************************************************)
\* the windows of a simple note, as the specification names them
AvailableWindow(n) == IF n.kind \in {"Tap", "Hold"} THEN TAP_AVAILABLE ELSE TOUCH_AVAILABLE
CriticalWindow(n) == IF n.kind \in {"Tap", "Hold"} THEN TAP_CRITICAL ELSE TOUCH_CRITICAL

\* every simple note of the chart with its state: the top-level ones and
\* the children of the touch groups
SimpleNotes ==
    { [n |-> note_sequence[i], s |-> ns[i]] :
         i \in {i \in DOMAIN note_sequence : IsSimple(note_sequence[i])} }
    \cup UNION { { [n |-> note_sequence[i].children[c], s |-> ns[i].children[c]] :
                     c \in DOMAIN note_sequence[i].children } :
                 i \in {i \in DOMAIN note_sequence : note_sequence[i].kind = "TouchGroup"} }

\* C1, as stated: every judged simple note has its judge_moment within the
\* available window of its moment, and within the critical window when it is
\* Critical -- also when it was judged by the late timeout.
C1_JudgedInsideWindow ==
    \A x \in SimpleNotes :
        x.s.judge # "NotYet" =>
            /\ Abs(x.s.judge_moment - x.n.moment) <= AvailableWindow(x.n)
            /\ x.s.judge = "Critical" =>
                  Abs(x.s.judge_moment - x.n.moment) <= CriticalWindow(x.n)

\* C1, amended: a judged simple note is never judged before its window
\* opens, a Critical one is judged within the critical window, and a note
\* judged after its window has closed (by the late timeout, or by a pad-down
\* of the tick in which the timeout would have come) is Bad and was judged
\* at the first tick after the window.
C1_JudgedNotBeforeWindow ==
    \A x \in SimpleNotes :
        x.s.judge # "NotYet" =>
            /\ x.s.judge_moment - x.n.moment >= -AvailableWindow(x.n)
            /\ x.s.judge = "Critical" =>
                  Abs(x.s.judge_moment - x.n.moment) <= CriticalWindow(x.n)
            /\ x.s.judge_moment - x.n.moment > AvailableWindow(x.n) =>
                  /\ x.s.judge = "Bad"
                  /\ x.s.judge_moment - x.n.moment <= AvailableWindow(x.n) + MaxDt

\* a chart has been played in which one note was judged Critical by a
\* pad-down, one was judged by a pad-down after its window and one by the
\* late timeout
C1_Witness ==
    /\ \E x \in SimpleNotes : x.s.judge = "Critical" /\ x.s.judge_action # 0
    /\ \E x \in SimpleNotes :
          /\ x.s.judge = "Bad" /\ x.s.judge_action # 0
          /\ x.s.judge_moment - x.n.moment > AvailableWindow(x.n)
    /\ \E x \in SimpleNotes :
          /\ x.s.judge = "Bad" /\ x.s.judge_action = 0
          /\ x.s.judge_moment - x.n.moment > AvailableWindow(x.n)

\* the offers of the last tick's pad-down events to top-level simple notes
SimpleOffers ==
    IF ~tick_out.ticked THEN {}
    ELSE { o \in UNION { Range(tick_out.offers[e]) : e \in DOMAIN tick_out.offers } :
              IsSimple(note_sequence[o.note]) }

\* the pad-down of an offer is on the note's pad, the note is unjudged and
\* the time is not before the start of the note's window
Eligible(o) ==
    /\ o.before.judge = "NotYet"
    /\ o.event[1] = note_sequence[o.note].pad
    /\ timer >= note_sequence[o.note].moment - AvailableWindow(note_sequence[o.note])

\* C2: an unjudged simple note offered a pad-down on its own pad at
\* now >= moment - available window consumes it, records judge_moment = now
\* and judge_action = the event's action and becomes Critical iff
\* |now - moment| <= critical window, else Bad; any other offer is not
\* consumed and changes nothing.
C2_PadDownContract ==
    \A o \in SimpleOffers :
        LET n == note_sequence[o.note]
        IN  IF Eligible(o)
            THEN /\ o.consumed
                 /\ o.after.judge_moment = timer
                 /\ o.after.judge_action = o.event[2]
                 /\ o.after.judge =
                       (IF Abs(timer - n.moment) <= CriticalWindow(n)
                        THEN "Critical" ELSE "Bad")
            ELSE /\ ~o.consumed
                 /\ o.after = o.before

\* a tick offered pad-downs that were consumed and pad-downs on another pad
C2_Witness ==
    /\ \E o \in SimpleOffers : o.consumed /\ o.after.judge = "Critical"
    /\ \E o \in SimpleOffers : ~o.consumed /\ o.event[1] # note_sequence[o.note].pad

\* a tick offered a note a pad-down on its pad before its window
C2_WitnessEarly ==
    \E o \in SimpleOffers :
        /\ ~o.consumed /\ o.event[1] = note_sequence[o.note].pad
        /\ o.before.judge = "NotYet"

\* a tick offered a pad-down to a note that was judged already
C2_WitnessJudged ==
    \E o \in SimpleOffers : ~o.consumed /\ o.before.judge # "NotYet"

\* a tick judged a note Bad by a pad-down
C2_WitnessBad ==
    \E o \in SimpleOffers : o.consumed /\ o.after.judge = "Bad"

\* a step of the engine that is a tick
IsTick == loaded /\ loaded' /\ tick_out'.ticked /\ timer' > timer

\* the top-level notes that consumed a pad-down event in the tick just made
ConsumersOf(out) == Range(out.consumers) \ {0}

PositionIn(seq, i) ==
    IF i \in Range(seq) THEN CHOOSE k \in DOMAIN seq : seq[k] = i ELSE 0

\* C4: each pad-down event of a tick is offered to the active notes in
\* their order, which is the order of their moments, up to the first note
\* that accepts it: the notes before the consumer are left as they were,
\* the notes after it are not offered the event, and so the event judges at
\* most one note, the earliest that accepts it.
C4_FirstAcceptingNoteWins ==
    tick_out.ticked =>
        /\ \A k \in 1..(Len(tick_out.offered_notes) - 1) :
              /\ tick_out.offered_notes[k] < tick_out.offered_notes[k + 1]
              /\ note_sequence[tick_out.offered_notes[k]].moment
                    <= note_sequence[tick_out.offered_notes[k + 1]].moment
        /\ Len(tick_out.offers) = Len(tick_out.pad_down)
        /\ Len(tick_out.consumers) = Len(tick_out.pad_down)
        /\ \A e \in DOMAIN tick_out.offers :
              LET offs == tick_out.offers[e]
                  c == tick_out.consumers[e]
              IN  /\ Len(offs) <= Len(tick_out.offered_notes)
                  /\ \A j \in DOMAIN offs :
                        /\ offs[j].note = tick_out.offered_notes[j]
                        /\ offs[j].event = tick_out.pad_down[e]
                        /\ offs[j].consumed => j = Len(offs)
                        /\ ~offs[j].consumed => offs[j].after = offs[j].before
                  /\ IF c = 0
                     THEN /\ Len(offs) = Len(tick_out.offered_notes)
                          /\ \A j \in DOMAIN offs : ~offs[j].consumed
                     ELSE /\ Len(offs) = PositionIn(tick_out.offered_notes, c)
                          /\ offs[Len(offs)].consumed

\* a pad-down was consumed by a note while a later note on the same pad,
\* inside its window too, was active: the later note is still unjudged
C4_Witness ==
    /\ tick_out.ticked
    /\ \E e \in DOMAIN tick_out.consumers :
          LET c == tick_out.consumers[e]
          IN  /\ c # 0 /\ IsSimple(note_sequence[c])
              /\ \E i \in Range(tick_out.offered_notes) :
                    /\ i > c /\ IsSimple(note_sequence[i])
                    /\ note_sequence[i].pad = note_sequence[c].pad
                    /\ note_sequence[i].moment > note_sequence[c].moment
                    /\ Abs(timer - note_sequence[i].moment)
                          <= AvailableWindow(note_sequence[i])
                    /\ ns[i].judge = "NotYet"

\* the records a tick appended to muri_record_list
NewRecords == SubSeq(muri_record_list', Len(muri_record_list) + 1, Len(muri_record_list'))

\* the type the specification gives the record of a Bad top-level note
ExpectedMuriType(n, s) ==
    IF n.kind \in {"SlideChain", "Wifi"} THEN "SlideTooFast"
    ELSE IF s.judge_moment < n.moment
         THEN IF action_sequence[s.judge_action].kind = "ExtraPadDown"
              THEN "SlideHeadTap" ELSE "TapOnSlide"
         ELSE "Overlap"

\* C9: the notes a tick finishes leave active_notes, and the records the
\* tick appends after its MultiTouch record (if any) are, in the order of
\* the finished notes, exactly one for each finished note whose judge is
\* Bad and none for the others; the record is of type SlideTooFast for a
\* SlideChain or Wifi, else SlideHeadTap when judge_moment < moment and
\* judge_action is an ExtraPadDown, TapOnSlide when judge_moment < moment
\* and judge_action is another action, Overlap when judge_moment >= moment.
C9_DynamicMuriRecords ==
    [][ IsTick =>
          LET fin == tick_out'.finished_notes
              bad == SelectSeq(fin, LAMBDA i : ns'[i].judge = "Bad")
              recs == SelectSeq(NewRecords, LAMBDA r : r.type # "MultiTouch")
          IN  /\ Range(active_notes') = Range(tick_out'.offered_notes) \ Range(fin)
              /\ Len(recs) = Len(bad)
              /\ \A k \in DOMAIN bad :
                    /\ recs[k].affected = note_sequence[bad[k]].cursor
                    /\ recs[k].time = <<timer', JUDGE_TPS>>
                    /\ recs[k].type = ExpectedMuriType(note_sequence[bad[k]], ns'[bad[k]]) ]_vars

\* a chart was played to its end in which a slide was finished Critical
\* without a record, and two taps were each finished Bad with a record, one
\* a SlideHeadTap and one a TapOnSlide
C9_Witness ==
    /\ loaded /\ active_notes = <<>> /\ note_pointer = Len(note_sequence)
    /\ Len(muri_record_list) = 2
    /\ \E i \in DOMAIN note_sequence :
          note_sequence[i].kind = "SlideChain" /\ ns[i].judge = "Critical"
    /\ {muri_record_list[k].type : k \in DOMAIN muri_record_list}
          = {"SlideHeadTap", "TapOnSlide"}

\* the source-note cursors of the touch points of a tick
CursorsOf(touch_points) ==
    { note_sequence[action_sequence[touch_points[k].action].source].cursor :
         k \in DOMAIN touch_points }

\* C10: hand_count is the number of the tick's touch points plus the number
\* of those whose action requires two hands, and the tick appends a
\* MultiTouch record iff hand_count > 2 and the set of the source-note
\* cursors of its touch points was not recorded before.
C10_MultiTouch ==
    [][ IsTick =>
          LET tp == tick_out'.touch_points
              two == {k \in DOMAIN tp : action_sequence[tp[k].action].require_two_hands}
              multi == SelectSeq(NewRecords, LAMBDA r : r.type = "MultiTouch")
              fresh == tick_out'.hand_count > 2 /\ CursorsOf(tp) \notin multi_touch_muri
          IN  /\ tick_out'.hand_count = Len(tp) + Cardinality(two)
              /\ Len(multi) = (IF fresh THEN 1 ELSE 0)
              /\ fresh => /\ multi[1].hand_count = tick_out'.hand_count
                          /\ Range(multi[1].cause) = CursorsOf(tp)
                          /\ multi_touch_muri' = multi_touch_muri \cup {CursorsOf(tp)}
              /\ ~fresh => multi_touch_muri' = multi_touch_muri ]_vars

\* three presses of one hand each are held on three pads, and the one
\* MultiTouch record there is, with hand_count 3, was made at an earlier tick
C10_Witness ==
    /\ tick_out.ticked /\ tick_out.hand_count = 3
    /\ Len(tick_out.touch_points) = 3
    /\ Len(muri_record_list) = 1
    /\ muri_record_list[1].type = "MultiTouch"
    /\ muri_record_list[1].hand_count = 3
    /\ muri_record_list[1].time[1] < timer

(***************************************************************************)
(* Properties of the slides (SlideChain, Wifi), on the slide harness       *)
(***************************************************************************)
\* the harness's note
HarnessNote == SlideNotes[hs.k]

\* a slide's state is that of a slide that has been slid to its end
Completed(n, st) ==
    IF n.kind = "SlideChain"
    THEN st.cur_area_idx >= n.total_area_num
    ELSE (\A l \in 1..3 : st.lane_finished[l]) /\ st.pad_c_passed

\* a step of the harness: one call of update
IsUpdate == hs # <<>> /\ hs' # <<>> /\ hs'.steps = hs.steps + 1

\* |now - critical_moment| <= critical_delta, in millionths of a tick
InCriticalDelta(n, now) ==
    4 * Abs(now * 1000000 - n.critical_moment_u) <= n.critical_delta_u4

\* |now - critical_moment + SLIDE_DELTA_SHIFT| <= SLIDE_CRITICAL
InShiftedCritical(n, now) ==
    Abs(now * 1000000 - n.critical_moment_u + SLIDE_DELTA_SHIFT * 1000000)
        <= SLIDE_CRITICAL * 1000000

\* C5: a slide chain whose last area is completed by the update at `now`
\* gets judge_moment = now and is Critical iff |now - critical_moment| <=
\* critical_delta or |now - critical_moment + SLIDE_DELTA_SHIFT| <=
\* SLIDE_CRITICAL, and Bad otherwise.
C5_SlideChainJudgement ==
    [][ (IsUpdate /\ HarnessNote.kind = "SlideChain"
           /\ ~Completed(HarnessNote, hs.st) /\ Completed(HarnessNote, hs'.st)) =>
          /\ hs'.st.judge_moment = hs'.now
          /\ hs'.st.judge =
                (IF InCriticalDelta(HarnessNote, hs'.now)
                      \/ InShiftedCritical(HarnessNote, hs'.now)
                 THEN "Critical" ELSE "Bad") ]_vars

\* a slide chain was completed and judged Critical at a moment that is
\* outside critical_delta and inside the shifted window
C5_Witness ==
    /\ hs # <<>> /\ HarnessNote.kind = "SlideChain"
    /\ Completed(HarnessNote, hs.st)
    /\ hs.st.judge = "Critical"
    /\ hs.st.judge_moment = hs.now
    /\ ~InCriticalDelta(HarnessNote, hs.now)

\* a slide chain was completed and judged Bad
C5_WitnessBad ==
    /\ hs # <<>> /\ HarnessNote.kind = "SlideChain"
    /\ Completed(HarnessNote, hs.st)
    /\ hs.st.judge = "Bad"

\* C6: a slide chain or wifi that is unjudged has not been updated past
\* end_moment + SLIDE_AVAILABLE; the first update at a later moment judges
\* it, Bad unless that very update completes it; and an update at an
\* earlier moment, or at that moment itself, sets it Bad only by completing
\* it, never by the timeout.
C6_SlideTimeout ==
    [][ (IsUpdate /\ hs.st.judge = "NotYet") =>
          /\ hs.now <= HarnessNote.end_moment + SLIDE_AVAILABLE
          /\ hs'.now > HarnessNote.end_moment + SLIDE_AVAILABLE =>
                /\ hs'.st.judge # "NotYet"
                /\ hs'.st.judge_moment = hs'.now
                /\ ~Completed(HarnessNote, hs'.st) => hs'.st.judge = "Bad"
          /\ (hs'.now <= HarnessNote.end_moment + SLIDE_AVAILABLE
                 /\ hs'.st.judge # "NotYet") => Completed(HarnessNote, hs'.st) ]_vars

\* a wifi whose lanes were begun and not slid to their ends was set Bad at
\* the first moment after end_moment + SLIDE_AVAILABLE
C6_Witness ==
    /\ hs # <<>> /\ HarnessNote.kind = "Wifi"
    /\ hs.st.judge = "Bad"
    /\ hs.st.judge_moment = HarnessNote.end_moment + SLIDE_AVAILABLE + 1
    /\ hs.st.judge_moment = hs.now
    /\ \E l \in 1..3 : hs.st.pressing[l] # NoPad
    /\ ~Completed(HarnessNote, hs.st)

\* a slide chain that was not slid to its end was set Bad by the timeout
C6_WitnessChain ==
    /\ hs # <<>> /\ HarnessNote.kind = "SlideChain"
    /\ hs.st.judge = "Bad" /\ ~Completed(HarnessNote, hs.st)
    /\ hs.st.cur_area_idx > 0

\* C7: an update at now < available_moment leaves the state of a slide
\* chain or wifi as it was, whatever pads are pressed.
C7_NotBeforeAvailable ==
    [][ (IsUpdate /\ hs'.now < HarnessNote.moment - SLIDE_LEADING) => hs'.st = hs.st ]_vars

\* update was called before available_moment with the pads of the first
\* judge area pressed
C7_Witness ==
    /\ hs # <<>> /\ hs.steps >= 1
    /\ hs.now < HarnessNote.moment - SLIDE_LEADING
    /\ \A p \in Level(HarnessNote, 1) : hs.pad_states[p] # 0
    /\ hs.st = NewNote(HarnessNote)

\* C8: a slide chain is judged before the timeout, or judged Critical, only
\* by completing, and cur_area_idx never exceeds total_area_num; when it
\* has completed, cur_area_idx = total_area_num, the chain is judged, and
\* every area whose entry of area_judge_actions is empty was passed over
\* while _can_skip_area told true.
C8_CompletedChain ==
    (hs # <<>> /\ HarnessNote.kind = "SlideChain") =>
        /\ hs.st.cur_area_idx <= HarnessNote.total_area_num
        /\ (hs.st.judge = "Critical"
              \/ (hs.st.judge = "Bad"
                    /\ hs.st.judge_moment <= HarnessNote.end_moment + SLIDE_AVAILABLE))
              => hs.st.cur_area_idx = HarnessNote.total_area_num
        /\ \A x \in hs.passed : x[2] = TRUE
        /\ hs.st.cur_area_idx = HarnessNote.total_area_num =>
              /\ hs.st.judge # "NotYet"
              /\ \A i \in 1..HarnessNote.total_area_num :
                    hs.st.area_judge_actions[i] = <<>> => <<i - 1, TRUE>> \in hs.passed

\* a slide chain was completed with an area that no action judged
C8_Witness ==
    /\ hs # <<>> /\ HarnessNote.kind = "SlideChain"
    /\ hs.st.cur_area_idx = HarnessNote.total_area_num
    /\ \E i \in 1..HarnessNote.total_area_num : hs.st.area_judge_actions[i] = <<>>

(***************************************************************************)
(* Properties of the MultiTouch records                                    *)
(***************************************************************************)
\* the positions of the MultiTouch records in muri_record_list
MultiTouchAt == {k \in DOMAIN muri_record_list : muri_record_list[k].type = "MultiTouch"}

\* C11: no two MultiTouch records of muri_record_list have the same set of
\* source cursors, in whatever order the touches were listed; the cursor
\* sets recorded are those of the records, so a chord that stays over the
\* threshold with the same cursor set is reported once.
C11_MultiTouchOnce ==
    /\ \A j, k \in MultiTouchAt :
          j # k => Range(muri_record_list[j].cause) # Range(muri_record_list[k].cause)
    /\ multi_touch_muri = {Range(muri_record_list[k].cause) : k \in MultiTouchAt}

\* a chord is held over the threshold two ticks or more after the tick that
\* recorded it, and the list holds that one MultiTouch record
C11_Witness ==
    /\ tick_out.ticked /\ tick_out.hand_count > 2
    /\ Cardinality(MultiTouchAt) = 1
    /\ \E k \in MultiTouchAt :
          /\ Range(muri_record_list[k].cause) = CursorsOf(tick_out.touch_points)
          /\ muri_record_list[k].time[1] + 2 <= timer

(***************************************************************************)
(* Properties of the wifi, on the slide harness                            *)
(***************************************************************************)
\* C12: a wifi whose three lanes are all finished (and pad_c_passed) by the
\* update at `now` is judged at that tick with judge_moment = now, and is
\* Critical exactly when a slide chain completing at that tick with the same
\* critical_moment and critical_delta would be Critical, and Bad otherwise.
C12_WifiJudgedAsSlide ==
    [][ (IsUpdate /\ HarnessNote.kind = "Wifi"
           /\ ~Completed(HarnessNote, hs.st) /\ Completed(HarnessNote, hs'.st)) =>
          /\ hs'.st.judge_moment = hs'.now
          /\ hs'.st.judge =
                (IF InCriticalDelta(HarnessNote, hs'.now)
                      \/ InShiftedCritical(HarnessNote, hs'.now)
                 THEN "Critical" ELSE "Bad") ]_vars

\* the lanes of a wifi's state are all finished
LanesFinished(st) == \A l \in 1..3 : st.lane_finished[l]

\* pad C has a pad-up edge at this call of update
PadCUpEdge == hs.pad_states[PadC] # 0 /\ hs'.pad_states[PadC] = 0

\* C13: with wifi_need_c set, pad_c_passed turns true only at an update with
\* a pad-up edge of pad C and the middle lane past its first area; a wifi is
\* judged only with its lanes finished and pad_c_passed, or Bad by the
\* too-late timeout; with the lanes finished and no such edge so far the
\* judgement is held, and it is made at the update where the edge occurs.
\* With the flag unset pad_c_passed holds from the start.
C13_WifiNeedsC ==
    [][ IsUpdate =>
          /\ (~hs.need_c) => hs'.st.pad_c_passed
          /\ (~hs.st.pad_c_passed /\ hs'.st.pad_c_passed) =>
                PadCUpEdge /\ hs'.st.cur_area_idxes[2] > 0
          /\ (hs.st.judge = "NotYet" /\ hs'.st.judge # "NotYet") =>
                /\ hs'.st.judge_moment = hs'.now
                /\ \/ LanesFinished(hs'.st) /\ hs'.st.pad_c_passed
                   \/ hs'.st.judge = "Bad" /\ TooLate(HarnessNote, hs'.now)
          /\ (LanesFinished(hs'.st) /\ ~hs'.st.pad_c_passed
                /\ ~TooLate(HarnessNote, hs'.now)) => hs'.st.judge = "NotYet"
          /\ (hs.st.judge = "NotYet" /\ LanesFinished(hs.st) /\ ~hs.st.pad_c_passed
                /\ PadCUpEdge /\ ~NotYetAvailable(HarnessNote, hs'.now)) =>
                /\ hs'.st.judge # "NotYet"
                /\ hs'.st.judge_moment = hs'.now ]_vars

\* a wifi under wifi_need_c whose lanes were finished at an earlier update
\* and that was judged, not by the timeout, at the update of the pad-C edge
C13_Witness ==
    /\ hs # <<>> /\ hs.need_c
    /\ hs.st.judge # "NotYet" /\ hs.st.judge_moment = hs.now
    /\ ~TooLate(HarnessNote, hs.now)
    /\ hs.st.area_judge_actions[2][3] # <<>>
    /\ hs.st.area_judge_actions[2][3][2] = hs.now
    /\ hs.st.area_judge_actions[2][4] # <<>>
    /\ hs.st.area_judge_actions[2][4][2] < hs.now

(***************************************************************************)
(* Properties of the touch group, on the touch group harness               *)
(***************************************************************************)
GroupNote == GroupNotes[hs.g]

\* the children judged in a group's state
JudgedChildren(st) == {c \in DOMAIN st.children : st.children[c].judge # "NotYet"}

\* the children judged at `now` by no action and inside the window: those
\* update judged after counting
AutoJudged(n, st, now) ==
    {c \in JudgedChildren(st) :
        /\ st.children[c].judge_moment = now
        /\ st.children[c].judge_action = 0
        /\ now - n.children[c].moment <= TOUCH_AVAILABLE}

\* a step of the touch group harness
IsGroupTick == hs # <<>> /\ hs' # <<>> /\ hs'.steps = hs.steps + 1

\* C14: after an update in which at least 0.51 * n children are judged
\* (ceil(0.51 * n) of them) every child is judged; with fewer no child is
\* auto-judged; finish is true exactly when all children are judged.
C14_GroupThreshold ==
    [][ IsGroupTick =>
          LET n == Len(GroupNote.children)
              counted == Cardinality(JudgedChildren(hs'.st))
                           - Cardinality(AutoJudged(GroupNote, hs'.st, hs'.now))
              ceil == (51 * n + 99) \div 100
          IN  /\ counted >= ceil => JudgedChildren(hs'.st) = 1..n
              /\ counted < ceil => AutoJudged(GroupNote, hs'.st, hs'.now) = {}
              /\ finish(GroupNote, hs'.st, hs'.now) <=> JudgedChildren(hs'.st) = 1..n ]_vars

\* a group of four with three children judged by pad-downs and the fourth
\* auto-judged at the same tick
C14_Witness ==
    /\ hs # <<>> /\ "g" \in DOMAIN hs /\ hs.g = 4
    /\ Cardinality(AutoJudged(GroupNote, hs.st, hs.now)) = 1
    /\ \A c \in 1..4 : hs.st.children[c].judge_moment = hs.now

\* a group of four with two children judged and the others left waiting
C14_WitnessBelow ==
    /\ hs # <<>> /\ "g" \in DOMAIN hs /\ hs.g = 4
    /\ Cardinality(JudgedChildren(hs.st)) = 2

(***************************************************************************)
(* Termination of the drain loop                                           *)
(***************************************************************************)
\* every note has been activated and retired
Drained == loaded /\ note_pointer = Len(note_sequence) /\ active_notes = <<>>

\* C15: repeatedly calling tick(1) on a loaded chart eventually reaches a
\* state with note_pointer = len(note_sequence) and active_notes empty.
C15_DrainLoopTerminates == <>Drained

\* a chart of four notes or more drained, with the clock at or past the
\* moment of its last note
C15_Witness ==
    /\ Drained
    /\ Len(note_sequence) >= 4
    /\ \A i \in DOMAIN note_sequence : timer >= note_sequence[i].moment
    /\ timer < MaxTimer

(***************************************************************************)
(* Properties of the static check                                          *)
(***************************************************************************)
\* the notes the static check looks at, with the touch groups opened
Flat == flatten_touch_group(hs.chart)

SimpleAt == {i \in DOMAIN Flat : IsSimple(Flat[i])}
SlidesAt == {i \in DOMAIN Flat : IsSlide(Flat[i])}
ChainsAt == {i \in DOMAIN Flat : Flat[i].kind = "SlideChain"}
TapHoldAt == {i \in DOMAIN Flat : Flat[i].kind \in {"Tap", "Hold"}}

\* the records of a type between two notes, whichever is affected (for a
\* collide record the first is the affected note and the second the cause)
OverlapsOf(i, j) ==
    {k \in DOMAIN hs.records :
        /\ hs.records[k].type = "Overlap"
        /\ {hs.records[k].affected, hs.records[k].cause} = {Flat[i].cursor, Flat[j].cursor}}
CollidesOf(type, i, j) ==
    {k \in DOMAIN hs.records :
        /\ hs.records[k].type = type
        /\ hs.records[k].affected = Flat[i].cursor
        /\ hs.records[k].cause = Flat[j].cursor}

IsTapLike(n) == n.kind \in {"Tap", "Touch"}
IsHoldLike(n) == n.kind \in {"Hold", "TouchHold"}

\* a's moment lies in [b.moment - OVERLAY_THRESHOLD, b.end_moment + OVERLAY_THRESHOLD]
WithinHold(a, b) ==
    b.moment - OVERLAY_THRESHOLD <= a.moment /\ a.moment <= b.end_moment + OVERLAY_THRESHOLD

\* the overlap condition as stated: close moments, or two holds of which one
\* starts within the other
StatedOverlap(a, b) ==
    /\ a.pad = b.pad
    /\ \/ Abs(a.moment - b.moment) <= OVERLAY_THRESHOLD
       \/ IsHoldLike(a) /\ IsHoldLike(b) /\ (WithinHold(a, b) \/ WithinHold(b, a))

\* the overlap condition with the tap within a hold
FullOverlap(a, b) ==
    /\ a.pad = b.pad
    /\ \/ IsTapLike(a) /\ IsTapLike(b) /\ Abs(a.moment - b.moment) <= OVERLAY_THRESHOLD
       \/ IsTapLike(a) /\ IsHoldLike(b) /\ WithinHold(a, b)
       \/ IsHoldLike(a) /\ IsTapLike(b) /\ WithinHold(b, a)
       \/ IsHoldLike(a) /\ IsHoldLike(b) /\ (WithinHold(a, b) \/ WithinHold(b, a))

\* C16 as stated: a pair of simple notes on one pad is flagged Overlap iff
\* its moments differ by OVERLAY_THRESHOLD at most, or it is a pair of holds
\* of which one's moment lies in the other's stretched duration.
C16_OverlapAsStated ==
    (hs # <<>> /\ hs.checked) =>
       \A i, j \in SimpleAt :
          i < j => ((OverlapsOf(i, j) # {}) <=> StatedOverlap(Flat[i], Flat[j]))

\* C16: a pair of simple notes is flagged Overlap iff the notes are on one
\* pad and: two taps or touches differ by OVERLAY_THRESHOLD at most
\* (equality flagged); a tap or touch lies in [moment - OVERLAY_THRESHOLD,
\* end_moment + OVERLAY_THRESHOLD] of a hold or touch hold; of two holds one
\* starts in that interval of the other.
C16_Overlap ==
    (hs # <<>> /\ hs.checked) =>
       \A i, j \in SimpleAt :
          i < j => ((OverlapsOf(i, j) # {}) <=> FullOverlap(Flat[i], Flat[j]))

\* a tap during a hold, further than OVERLAY_THRESHOLD from its moment, is
\* flagged
C16_Witness ==
    /\ hs # <<>> /\ hs.checked
    /\ \E i, j \in SimpleAt :
          /\ Flat[i].kind = "Hold" /\ Flat[j].kind = "Tap"
          /\ Flat[j].moment - Flat[i].moment > OVERLAY_THRESHOLD
          /\ OverlapsOf(i, j) # {}

\* two taps exactly OVERLAY_THRESHOLD apart are flagged
C16_WitnessEqual ==
    /\ hs # <<>> /\ hs.checked
    /\ \E i, j \in SimpleAt :
          /\ Flat[i].kind = "Tap" /\ Flat[j].kind = "Tap"
          /\ Flat[j].moment - Flat[i].moment = OVERLAY_THRESHOLD
          /\ OverlapsOf(i, j) # {}

\* C17: every unordered pair of simple notes has at most one Overlap record,
\* and exactly one when it meets the overlap condition, whatever the kinds
\* and the order of the two; every Overlap record has the cursors of two
\* different simple notes as affected and cause.
C17_OneOverlapRecord ==
    (hs # <<>> /\ hs.checked) =>
       /\ \A i, j \in SimpleAt :
             i < j => Cardinality(OverlapsOf(i, j)) =
                         (IF FullOverlap(Flat[i], Flat[j]) THEN 1 ELSE 0)
       /\ \A k \in DOMAIN hs.records :
             hs.records[k].type = "Overlap" =>
                \E i, j \in SimpleAt : i # j /\ k \in OverlapsOf(i, j)
                                         /\ hs.records[k].affected # hs.records[k].cause

\* a hold written before the tap that overlaps it: one record, the tap
\* affected and the hold the cause
C17_Witness ==
    /\ hs # <<>> /\ hs.checked
    /\ \E i, j \in SimpleAt :
          /\ i < j
          /\ Flat[i].kind = "Hold" /\ Flat[j].kind = "Tap"
          /\ Cardinality(OverlapsOf(i, j)) = 1
          /\ \E k \in OverlapsOf(i, j) :
                /\ hs.records[k].affected = Flat[j].cursor
                /\ hs.records[k].cause = Flat[i].cursor

\* C18: for a slide chain or wifi and a tap or hold on its start pad there
\* is a SlideHeadTap record iff TAP_ON_SLIDE_THRESHOLD <= tap.moment -
\* slide.shoot_moment <= COLLIDE_THRESHOLD, with delta = slide.shoot_moment -
\* tap.moment; no other note has one.
C18_SlideHeadTap ==
    (hs # <<>> /\ hs.checked) =>
       \A s \in SlidesAt : \A t \in SimpleAt :
          LET d == Flat[t].moment - Flat[s].shoot_moment
              on_head == t \in TapHoldAt /\ Flat[t].idx = Flat[s].start
          IN  /\ Cardinality(CollidesOf("SlideHeadTap", t, s)) =
                    (IF on_head /\ TAP_ON_SLIDE_THRESHOLD_u <= d * 1000000
                                /\ d <= COLLIDE_THRESHOLD
                     THEN 1 ELSE 0)
              /\ \A k \in CollidesOf("SlideHeadTap", t, s) :
                    hs.records[k].delta_u = -d * 1000000

\* a hold on the start pad exactly COLLIDE_THRESHOLD after the star shoots
C18_Witness ==
    /\ hs # <<>> /\ hs.checked
    /\ \E s \in SlidesAt : \E t \in TapHoldAt :
          /\ Flat[t].kind = "Hold"
          /\ Flat[t].moment - Flat[s].shoot_moment = COLLIDE_THRESHOLD
          /\ CollidesOf("SlideHeadTap", t, s) # {}

\* the moment, in millionths of a tick, at which the star of the k-th
\* segment enters the e-th pad of its pad_enter_time
EnterMoment(s, k, e) ==
    s.segment_shoot_moments[k] * 1000000
       + s.segment_infos[k].pad_enter_time[e][2] * s.durations[k]

\* the entry is that of the slide's final pad
IsFinalEntry(s, k, e) ==
    k = Len(s.segment_infos) /\ e = Len(s.segment_infos[k].pad_enter_time)

\* the moment m (in ticks) lies in the interval of the entry
InEntryInterval(s, k, e, m) ==
    /\ Max(EnterMoment(s, k, e) - COLLIDE_EXTRA_DELTA * 1000000,
           s.shoot_moment * 1000000 + TAP_ON_SLIDE_THRESHOLD_u) <= m * 1000000
    /\ m * 1000000 <=
          (IF IsFinalEntry(s, k, e)
           THEN Max(EnterMoment(s, k, e) + COLLIDE_THRESHOLD * 1000000,
                    (s.end_moment + COLLIDE_EXTRA_DELTA) * 1000000)
           ELSE EnterMoment(s, k, e) + COLLIDE_THRESHOLD * 1000000)

\* the entries of group-A pads on which the note lies
EntriesOn(s, n) ==
    {ke \in (DOMAIN s.segment_infos) \X (1..7) :
        /\ ke[2] \in DOMAIN s.segment_infos[ke[1]].pad_enter_time
        /\ is_group_a(s.segment_infos[ke[1]].pad_enter_time[ke[2]][1])
        /\ s.segment_infos[ke[1]].pad_enter_time[ke[2]][1] = n.pad}

C19_WitnessLeft ==
    /\ hs # <<>> /\ hs.checked
    /\ \E s \in ChainsAt : \E t \in TapHoldAt :
          /\ Flat[t].moment = Flat[s].shoot_moment + 1
          /\ Flat[t].idx # Flat[s].start
          /\ CollidesOf("TapOnSlide", t, s) # {}

(***************************************************************************)
(* Properties of the conversion of a slide chain                           *)
(***************************************************************************)
\* the chains of the chart
ChainAt == {i \in DOMAIN hs.chart : hs.chart[i].kind = "SlideChain"}

\* the positions, in the result, of the actions of a kind made for note i
ActionsOf(kind, i) ==
    {k \in DOMAIN hs.actions : hs.actions[k].kind = kind /\ hs.actions[k].source = i}

\* the time, in millionths of a tick, the star takes to the first pad of
\* pad_enter_time
FirstAreaDuration(c) == c.segment_infos[1].pad_enter_time[1][2] * c.durations[1]

\* C20: for a slide chain generate_action gives exactly one ActionSlide per
\* segment, at the segment's shoot moment with the segment's duration, not
\* a wifi's; the action of a segment before the last is tailless, that of
\* the last is tailless iff before_slide; and there is exactly one
\* ExtraPadDown, on the start pad at shoot_moment + min(EXTRA_PADDOWN_DELAY,
\* first_area_duration), when after_slide is false and none when it is true.
C20_ChainActions ==
    (hs # <<>> /\ "generated" \in DOMAIN hs /\ hs.generated) =>
       \A i \in ChainAt :
          LET c == hs.chart[i]
              n == Len(c.segment_infos)
              tailless(k) == k < n \/ c.before_slide
          IN  /\ Cardinality(ActionsOf("Slide", i)) = n
              /\ \A k \in 1..n :
                    \E a \in ActionsOf("Slide", i) :
                       /\ hs.actions[a].moment = c.segment_shoot_moments[k]
                       /\ hs.actions[a].duration = c.durations[k]
                       /\ ~hs.actions[a].is_wifi
                       /\ hs.actions[a].end_moment =
                             c.segment_shoot_moments[k] + c.durations[k]
                                + (IF tailless(k) THEN 0 ELSE RELEASE_DELAY)
              /\ Cardinality(ActionsOf("ExtraPadDown", i)) = (IF c.after_slide THEN 0 ELSE 1)
              /\ \A a \in ActionsOf("ExtraPadDown", i) :
                    /\ hs.actions[a].pad = A(c.start)
                    /\ hs.actions[a].moment_u =
                          c.shoot_moment * 1000000
                             + Min(EXTRA_PADDOWN_DELAY * 1000000, FirstAreaDuration(c))

\* a chain of three segments, neither before nor after a slide, whose star
\* reaches the first pad sooner than EXTRA_PADDOWN_DELAY: three slides, the
\* last with a tail, and the extra pad-down at the first pad's moment
C20_Witness ==
    /\ hs # <<>> /\ "generated" \in DOMAIN hs /\ hs.generated
    /\ \E i \in ChainAt :
          /\ Len(hs.chart[i].segment_infos) = 3
          /\ ~hs.chart[i].before_slide /\ ~hs.chart[i].after_slide
          /\ FirstAreaDuration(hs.chart[i]) < EXTRA_PADDOWN_DELAY * 1000000
          /\ Cardinality(ActionsOf("Slide", i)) = 3
          /\ \E a \in ActionsOf("Slide", i) :
                hs.actions[a].end_moment = hs.chart[i].end_moment + RELEASE_DELAY
          /\ \E a \in ActionsOf("ExtraPadDown", i) :
                hs.actions[a].moment_u =
                   hs.chart[i].shoot_moment * 1000000 + FirstAreaDuration(hs.chart[i])

\* the positions, in the result, of the actions made for note i
ActionsFor(i) == {k \in DOMAIN hs.actions : hs.actions[k].source = i}

\* the positions of the actions of a kind
ActionsOfKind(kind) == {k \in DOMAIN hs.actions : hs.actions[k].kind = kind}

\* the notes generate_action is to pass over
FlaggedAt ==
    {i \in DOMAIN hs.chart :
        \/ hs.chart[i].kind = "Tap" /\ hs.chart[i].is_slide_head
        \/ hs.chart[i].kind \in {"Touch", "TouchGroup"} /\ hs.chart[i].on_slide}

\* the chart is a Tap with is_slide_head and a one-segment chain from the
\* tap's pad that is not after a slide
IsHeadPair ==
    /\ Len(hs.chart) = 2
    /\ \E t, c \in DOMAIN hs.chart :
          /\ hs.chart[t].kind = "Tap" /\ hs.chart[t].is_slide_head
          /\ hs.chart[c].kind = "SlideChain"
          /\ Len(hs.chart[c].segment_infos) = 1
          /\ hs.chart[c].start = hs.chart[t].idx
          /\ ~hs.chart[c].after_slide

\* C21: generate_action gives no action for a Tap with is_slide_head nor
\* for a Touch or TouchGroup with on_slide; for a Tap with is_slide_head and
\* a one-segment chain from its pad the result is exactly one ExtraPadDown
\* and one Slide, and no Press.
C21_NoActionForFlagged ==
    (hs # <<>> /\ "generated" \in DOMAIN hs /\ hs.generated) =>
       /\ \A i \in FlaggedAt : ActionsFor(i) = {}
       /\ IsHeadPair =>
             /\ Len(hs.actions) = 2
             /\ Cardinality(ActionsOfKind("ExtraPadDown")) = 1
             /\ Cardinality(ActionsOfKind("Slide")) = 1
             /\ ActionsOfKind("Press") = {}

\* the tap-slide pair as post_parse_workup flags it, converted
C21_Witness ==
    /\ hs # <<>> /\ "generated" \in DOMAIN hs /\ hs.generated
    /\ IsHeadPair
    /\ Len(hs.actions) = 2

\* a touch and a touch group on a slide and a slide-head tap, all passed
\* over, beside a chain that has its actions
C21_WitnessFlags ==
    /\ hs # <<>> /\ "generated" \in DOMAIN hs /\ hs.generated
    /\ Cardinality(FlaggedAt) = 3
    /\ hs.actions # <<>>


(***************************************************************************)
(* C22: a tap on the start pad of a slide, two frames after the star       *)
(* leaves.                                                                 *)
(***************************************************************************)
\* the tap i lies on the pad the star of the slide j shoots from, at
\* shoot_moment + 2 * JUDGE_TPF
TapAfterShoot(i, j) ==
    /\ note_sequence[i].kind = "Tap"
    /\ note_sequence[j].kind = "SlideChain"
    /\ note_sequence[i].pad = note_sequence[j].start
    /\ note_sequence[i].moment = note_sequence[j].shoot_moment + 2 * JUDGE_TPF

\* the records of the engine that name the note i as affected
EngineRecordsOf(i) ==
    {k \in DOMAIN muri_record_list :
        muri_record_list[k].affected = note_sequence[i].cursor}

\* C22 (as stated): a Tap on pad p at shoot_moment + 2 * JUDGE_TPF of a slide
\* shooting from p is judged Bad before its own moment, by the slide's
\* ExtraPadDown, and its record has the type SlideHeadTap.
C22_TapJudgedByExtraPadDown ==
    loaded =>
        \A i, j \in DOMAIN note_sequence :
            (TapAfterShoot(i, j) /\ ns[i].judge # "NotYet") =>
                /\ ns[i].judge = "Bad"
                /\ ns[i].judge_moment < note_sequence[i].moment
                /\ action_sequence[ns[i].judge_action].kind = "ExtraPadDown"
                /\ action_sequence[ns[i].judge_action].source = j
                /\ \A k \in EngineRecordsOf(i) :
                      muri_record_list[k].type = "SlideHeadTap"


\* C22 (amended): a Tap on pad p at shoot_moment + 2 * JUDGE_TPF of a slide
\* shooting from p is judged Bad before its own moment, in the first tick
\* at or after shoot_moment, by the pad-down of the slide's ActionSlide,
\* whose touch point lies on p from shoot_moment on; its record has the type
\* TapOnSlide and the slide as cause.  The slide's ExtraPadDown fires later.
C22_TapJudgedBySlide ==
    loaded =>
        \A i, j \in DOMAIN note_sequence :
            TapAfterShoot(i, j) =>
                /\ timer >= note_sequence[j].shoot_moment => ns[i].judge = "Bad"
                /\ ns[i].judge # "NotYet" =>
                      /\ ns[i].judge = "Bad"
                      /\ ns[i].judge_moment >= note_sequence[j].shoot_moment
                      /\ ns[i].judge_moment < note_sequence[i].moment
                      /\ action_sequence[ns[i].judge_action].kind = "Slide"
                      /\ action_sequence[ns[i].judge_action].source = j
                      /\ \A k \in DOMAIN action_sequence :
                            action_sequence[k].kind = "ExtraPadDown" =>
                               ns[i].judge_moment * 1000000 < action_sequence[k].moment_u
                /\ \A k \in EngineRecordsOf(i) :
                      /\ muri_record_list[k].type = "TapOnSlide"
                      /\ muri_record_list[k].cause = note_sequence[j].cursor

\* the tap has been judged by the slide's touch and its record emitted,
\* before the moment of the ExtraPadDown
C22_Witness ==
    /\ loaded
    /\ \E i, j \in DOMAIN note_sequence :
          /\ TapAfterShoot(i, j)
          /\ ns[i].judge = "Bad"
          /\ EngineRecordsOf(i) # {}
          /\ \E k \in DOMAIN action_sequence :
                /\ action_sequence[k].kind = "ExtraPadDown"
                /\ action_sequence[k].source = j
                /\ timer * 1000000 < action_sequence[k].moment_u

(***************************************************************************)
(* C23: the fields of the records.                                         *)
(***************************************************************************)
MuriTypes == {"Overlap", "SlideHeadTap", "TapOnSlide", "SlideTooFast", "MultiTouch"}

Cursors == {note_sequence[i].cursor : i \in DOMAIN note_sequence}

\* C23 (as stated): every record of the engine carries a type of MuriTypes, a
\* time and an affected note cursor.
C23_RecordFieldsAsStated ==
    \A k \in DOMAIN muri_record_list :
        /\ {"type", "time", "affected"} \subseteq DOMAIN muri_record_list[k]
        /\ muri_record_list[k].type \in MuriTypes

\* C23 (amended): every record of the engine carries a type of MuriTypes and
\* a time in seconds, timer / JUDGE_TPS of a tick already taken; it carries
\* an affected note cursor exactly when its type is not MultiTouch, and a
\* MultiTouch record carries a hand count above two and the cursors of its
\* causes instead.
C23_RecordFields ==
    \A k \in DOMAIN muri_record_list :
        LET r == muri_record_list[k]
        IN  /\ {"type", "time"} \subseteq DOMAIN r
            /\ r.type \in MuriTypes
            /\ r.time[2] = JUDGE_TPS
            /\ r.time[1] <= timer
            /\ ("affected" \in DOMAIN r) <=> (r.type # "MultiTouch")
            /\ "affected" \in DOMAIN r => r.affected \in Cursors
            /\ r.type = "MultiTouch" =>
                  /\ {"hand_count", "cause"} \subseteq DOMAIN r
                  /\ r.hand_count > 2
                  /\ Range(r.cause) \subseteq Cursors

\* a MultiTouch record has been emitted, with a time and without an
\* affected cursor
C23_Witness ==
    \E k \in DOMAIN muri_record_list :
        /\ muri_record_list[k].type = "MultiTouch"
        /\ "time" \in DOMAIN muri_record_list[k]
        /\ "affected" \notin DOMAIN muri_record_list[k]

\* a record of a judged note has been emitted, with a time and an affected
\* cursor
C23_WitnessAffected ==
    \E k \in DOMAIN muri_record_list :
        /\ muri_record_list[k].type \in {"Overlap", "TapOnSlide", "SlideTooFast"}
        /\ {"time", "affected"} \subseteq DOMAIN muri_record_list[k]

\* the records of the static checker carry a type, an affected cursor and a
\* cause, and no time
C23_StaticRecordFields ==
    ("checked" \in DOMAIN hs /\ hs.checked) =>
        \A k \in DOMAIN hs.records :
            /\ {"type", "affected", "cause"} \subseteq DOMAIN hs.records[k]
            /\ "time" \notin DOMAIN hs.records[k]
            /\ hs.records[k].type \in {"Overlap", "SlideHeadTap", "TapOnSlide"}


(***************************************************************************)
(* C24: the thresholds of the default configuration, in ticks.             *)
(***************************************************************************)
\* two taps on one pad
TapPairs ==
    {<<i, j>> \in SimpleAt \X SimpleAt :
        /\ i < j
        /\ Flat[i].kind = "Tap" /\ Flat[j].kind = "Tap"
        /\ Flat[i].pad = Flat[j].pad}

C24_WitnessBeyond ==
    /\ hs # <<>> /\ hs.checked
    /\ \E pr \in TapPairs :
          /\ Abs(Flat[pr[1]].moment - Flat[pr[2]].moment) > 2
          /\ OverlapsOf(pr[1], pr[2]) # {}


(***************************************************************************)
(* The pad algebra: rotate45cw, reflect1c5 and next_to are applied to a    *)
(* pair of pads.                                                           *)
(***************************************************************************)
InitPad ==
    /\ loaded = FALSE
    /\ note_sequence = <<>>
    /\ action_sequence = <<>>
    /\ timer = -(JUDGE_TPS * 3)
    /\ note_pointer = 0
    /\ action_pointer = 0
    /\ active_notes = <<>>
    /\ active_actions = <<>>
    /\ pad_states = {}
    /\ last_pad_source = <<>>
    /\ multi_touch_muri = {}
    /\ muri_record_list = <<>>
    /\ ns = <<>>
    /\ tick_out = NoTick
    /\ hash_rev = FALSE
    /\ \E a \in Pads, b \in Pads :
          hs = [ pad |-> a, other |-> b, applied |-> FALSE ]

ApplyPad ==
    /\ ~hs.applied
    /\ hs' = [ pad |-> hs.pad, other |-> hs.other, applied |-> TRUE,
               rotated |-> rotate45cw(hs.pad, 8),
               reflected |-> reflect1c5(hs.pad),
               reflected_twice |-> reflect1c5(reflect1c5(hs.pad)),
               next_to |-> next_to(hs.pad, hs.other),
               next_to_back |-> next_to(hs.other, hs.pad),
               next_to_self |-> next_to(hs.pad, hs.pad) ]
    /\ UNCHANGED <<loaded, note_sequence, action_sequence, timer, note_pointer,
                   action_pointer, active_notes, active_actions, pad_states,
                   last_pad_source, multi_touch_muri, muri_record_list, ns,
                   tick_out, hash_rev>>

NextPad == ApplyPad

SpecPad == InitPad /\ [][NextPad]_vars

\* C25: on all 33 pads rotate45cw(8) is the identity, reflect1c5 applied
\* twice is the identity, and next_to is symmetric and irreflexive.
C25_PadAlgebra ==
    hs.applied =>
        /\ hs.rotated = hs.pad
        /\ hs.reflected \in Pads
        /\ hs.reflected_twice = hs.pad
        /\ hs.next_to = hs.next_to_back
        /\ ~hs.next_to_self

\* a pad that its reflection moves, next to the other pad
C25_Witness ==
    /\ hs.applied
    /\ hs.reflected # hs.pad
    /\ hs.next_to

\* pad C, which no rotation moves, next to a pad of group B
C25_WitnessC ==
    /\ hs.applied
    /\ hs.pad = PadC
    /\ hs.reflected = PadC
    /\ hs.other \in 8..15
    /\ hs.next_to_back


(***************************************************************************)
(* C26: the judge sequence of a chain and its seams.                       *)
(***************************************************************************)
\* the judge sequences of the segments from k on, each without its first
\* area
RECURSIVE TailsFrom(_, _)
TailsFrom(infos, k) ==
    IF k > Len(infos) THEN <<>>
    ELSE Tail(infos[k].judge_sequence) \o TailsFrom(infos, k + 1)

\* the number of areas before the first area of segment k
RECURSIVE AreasBefore(_, _)
AreasBefore(infos, k) ==
    IF k = 1 THEN 0
    ELSE AreasBefore(infos, k - 1) + Len(infos[k - 1].judge_sequence) - 1

\* C26: for every slide chain judge_sequence is the concatenation of the
\* segments' judge sequences with each shared boundary area kept once,
\* total_area_num is its length, segment_idx_bias[k] is the index (from 0)
\* at which segment k starts in it, and partition is true exactly at the
\* indices segment_idx_bias[k] of the segments after the first.
C26_ChainConsistency ==
    (hs # <<>> /\ "generated" \in DOMAIN hs) =>
       \A i \in ChainAt :
          LET c == hs.chart[i]
              infos == c.segment_infos
              n == Len(infos)
          IN  /\ c.judge_sequence = infos[1].judge_sequence \o TailsFrom(infos, 2)
              /\ c.total_area_num = Len(c.judge_sequence)
              /\ Len(c.segment_idx_bias) = n
              /\ \A k \in 1..n :
                    /\ c.segment_idx_bias[k] = AreasBefore(infos, k)
                    /\ \A a \in DOMAIN infos[k].judge_sequence :
                          c.judge_sequence[c.segment_idx_bias[k] + a]
                              = infos[k].judge_sequence[a]
              /\ \A x \in DOMAIN c.partition :
                    c.partition[x] <=> (\E k \in 2..n : c.segment_idx_bias[k] = x - 1)

\* a chain of three segments, with two seams, has been converted
C26_Witness ==
    /\ hs # <<>> /\ "generated" \in DOMAIN hs /\ hs.generated
    /\ \E i \in ChainAt :
          LET c == hs.chart[i]
          IN  /\ Len(c.segment_infos) = 3
              /\ Cardinality({x \in DOMAIN c.partition : c.partition[x]}) = 2
              /\ c.segment_idx_bias[2] > 0
              /\ c.segment_idx_bias[3] > c.segment_idx_bias[2]
              /\ c.total_area_num = c.segment_idx_bias[3]
                                       + Len(c.segment_infos[3].judge_sequence)


(***************************************************************************)
(* C27: the areas of an L-shape that cannot be skipped.                    *)
(***************************************************************************)
LNote == HarnessNotes[hs.k]

\* the indices (from 0) of the areas passed over without an entry
SkippedAreas == {e[1] : e \in hs.passed}

\* the slide went through all its areas
LCompleted == hs.st.cur_area_idx >= LNote.total_area_num

\* the areas an L-shape of one segment must not skip
Unskippable == IF LNote.segment_infos[1].is_special_L THEN {1, 3} ELSE {1}

\* C27: on a single-segment L-shape the area of index 1, and on a special
\* L-shape the area of index 3 as well, is never passed over: the slide goes
\* beyond it only with its entry in area_judge_actions, so a completed slide
\* has those entries; any area that is passed over is one _can_skip_area
\* allowed to skip.
C27_LShapeSkips ==
    /\ LNote.segment_infos[1].is_L
    /\ SkippedAreas \cap Unskippable = {}
    /\ \A i \in Unskippable :
          hs.st.cur_area_idx > i => hs.st.area_judge_actions[i + 1] # <<>>
    /\ LCompleted => \A i \in Unskippable : hs.st.area_judge_actions[i + 1] # <<>>
    /\ \A e \in hs.passed : e[2]

\* an L-shape of six areas completed with the areas 0, 2 and 4 skipped and
\* the area 1 entered
C27_Witness ==
    /\ LCompleted
    /\ ~LNote.segment_infos[1].is_special_L
    /\ SkippedAreas = {0, 2, 4}
    /\ hs.st.area_judge_actions[2] # <<>>

\* an L-shape with the area 3 skipped
C27_WitnessThird ==
    /\ hs.st.cur_area_idx > 3
    /\ ~LNote.segment_infos[1].is_special_L
    /\ 3 \in SkippedAreas

\* a special L-shape completed with the areas 0 and 2 skipped and the areas
\* 1 and 3 entered
C27_WitnessSpecial ==
    /\ LCompleted
    /\ LNote.segment_infos[1].is_special_L
    /\ SkippedAreas = {0, 2}
    /\ hs.st.area_judge_actions[2] # <<>>
    /\ hs.st.area_judge_actions[4] # <<>>

\* an L-shape held at the area 1: the area is not pressed, the next one is,
\* and the slide does not move on
C27_WitnessHeld ==
    /\ hs.st.cur_area_idx = 1
    /\ hs.st.pressing = NoPad
    /\ hs.steps > 0
    /\ hs.st.judge = "NotYet"
    /\ hs.now >= LNote.available_moment
    /\ \E p \in LNote.judge_sequence[3] : hs.pad_states[p] # 0
    /\ \A p \in LNote.judge_sequence[2] : hs.pad_states[p] = 0


(***************************************************************************)
(* C28: the tick in which an ExtraPadDown fires.                           *)
(***************************************************************************)
ExtraPadDowns == {k \in DOMAIN action_sequence : action_sequence[k].kind = "ExtraPadDown"}

\* the pad-down events of the last tick, as a set of <<pad, action>>
PadDownEvents == IF tick_out.ticked THEN Range(tick_out.pad_down) ELSE {}

\* the ExtraPadDown k was active in the loop over active_actions of the
\* tick just taken
WasActive(k) == k \in Range(active_actions) \/ (k > action_pointer /\ k <= action_pointer')

\* C28 (as stated): an active ExtraPadDown gives a pad-down on its pad, with
\* itself as source, in the tick whose interval (last_now, now] contains its
\* moment: at now == m for unit ticks and an integer moment m.
C28_ExtraPadDownAsStated ==
    [][Tick =>
        \A k \in ExtraPadDowns :
            (<<action_sequence[k].pad, k>> \in PadDownEvents')
                <=> /\ WasActive(k)
                    /\ timer * 1000000 < action_sequence[k].moment_u
                    /\ action_sequence[k].moment_u <= timer' * 1000000]_vars

\* the moment of the ExtraPadDown k lies in [last_now, now) of the tick
InWindow(k) ==
    /\ timer * 1000000 <= action_sequence[k].moment_u
    /\ action_sequence[k].moment_u < timer' * 1000000

\* the ExtraPadDowns that record a pad-down on pad p in the tick
FiredOn(p) ==
    {k \in ExtraPadDowns : WasActive(k) /\ InWindow(k) /\ action_sequence[k].pad = p}

\* pad p goes from clear to pressed in the tick
NewlyPressed(p) == p \in pad_states' \ pad_states

\* the source left in pad_down_source_dict[p] when some ExtraPadDown has
\* recorded a pad-down on p: the dict has one entry per pad, a later
\* ExtraPadDown of the loop replaces an earlier one, and the edge loop
\* replaces both by the touch source of a pad that is newly pressed
DeliveredSource(p) ==
    IF NewlyPressed(p) THEN last_pad_source'[p]
    ELSE CHOOSE k \in FiredOn(p) : \A j \in FiredOn(p) : j <= k

\* C28 (amended): an active ExtraPadDown records a pad-down on its pad in
\* the tick whose interval [last_now, now) contains its moment, and in no
\* other: for unit ticks and an integer moment m at the tick with
\* now == m + 1, not at now == m.  The pad-down of the pad is delivered with
\* the ExtraPadDown as source unless a later assignment of the same tick
\* to the pad's entry replaced it.
C28_ExtraPadDown ==
    [][Tick =>
        \A k \in ExtraPadDowns :
            /\ (<<action_sequence[k].pad, k>> \in PadDownEvents')
                   => (WasActive(k) /\ InWindow(k))
            /\ (WasActive(k) /\ InWindow(k))
                   => <<action_sequence[k].pad,
                        DeliveredSource(action_sequence[k].pad)>> \in PadDownEvents'
            /\ (WasActive(k) /\ InWindow(k)
                    /\ ~NewlyPressed(action_sequence[k].pad)
                    /\ FiredOn(action_sequence[k].pad) = {k})
                   => <<action_sequence[k].pad, k>> \in PadDownEvents']_vars

\* the pad-down of an ExtraPadDown of integer moment m was delivered by the
\* tick that reached now == m + 1, which retired the action
C28_Witness ==
    /\ loaded
    /\ \E k \in ExtraPadDowns :
          /\ <<action_sequence[k].pad, k>> \in PadDownEvents
          /\ action_sequence[k].moment_u = (timer - 1) * 1000000
          /\ k \notin Range(active_actions)

\* the tick with now == m delivers no pad-down of the ExtraPadDown of
\* moment m
C28_WitnessNotYet ==
    /\ loaded
    /\ \E k \in ExtraPadDowns :
          /\ action_sequence[k].moment_u = timer * 1000000
          /\ k \in Range(active_actions)
          /\ <<action_sequence[k].pad, k>> \notin PadDownEvents


(***************************************************************************)
(* C29: the pad-down and pad-up events of a tick.                          *)
(***************************************************************************)
\* the pad-down events of the last tick that a touch point made: those
\* whose source is no ExtraPadDown
TouchDownEvents == {e \in PadDownEvents : e[2] \notin ExtraPadDowns}

\* C29: in every tick a touch-generated pad-down event exists for a pad iff
\* the pad was not pressed after the previous tick and is pressed in this
\* one, with the action recorded for the pad in this tick as source; a
\* pad-up entry exists for a pad iff the pad was pressed after the previous
\* tick and is not pressed now, with the action recorded for the pad in the
\* previous tick as source.
C29_EdgeEvents ==
    [][Tick =>
        \A p \in Pads :
            /\ (\E e \in TouchDownEvents' : e[1] = p)
                  <=> (p \notin pad_states /\ p \in pad_states')
            /\ \A e \in TouchDownEvents' :
                  e[1] = p => (e[2] = last_pad_source'[p] /\ e[2] # 0)
            /\ (tick_out'.pad_up[p] # 0) <=> (p \in pad_states /\ p \notin pad_states')
            /\ tick_out'.pad_up[p] # 0 => tick_out'.pad_up[p] = last_pad_source[p]]_vars

\* a tick released a pad and pressed another
C29_Witness ==
    /\ tick_out.ticked
    /\ \E p \in Pads : tick_out.pad_up[p] # 0 /\ p \notin pad_states
    /\ \E e \in TouchDownEvents : e[1] \in pad_states /\ last_pad_source[e[1]] = e[2]

\* a tick left a pad pressed that was pressed before: no event for it
C29_WitnessHeld ==
    /\ tick_out.ticked
    /\ \E p \in pad_states :
          /\ tick_out.pad_up[p] = 0
          /\ \A e \in TouchDownEvents : e[1] # p


(***************************************************************************)
(* C30: pad_states after a tick.                                           *)
(***************************************************************************)
\* the square of the distance between the centre of pad p and a point
Dist2(p, center) ==
    (PadX[p + 1] - center[1]) * (PadX[p + 1] - center[1])
        + (PadY[p + 1] - center[2]) * (PadY[p + 1] - center[2])

\* some touch circle kept in the last tick meets the disc of pad p:
\* |p.vec - center| <= p.radius + radius
Touched(p) ==
    \E k \in DOMAIN tick_out.touch_points :
        LET tp == tick_out.touch_points[k]
        IN  Dist2(p, tp.center) <= (PadRadius(p) + tp.radius) * (PadRadius(p) + tp.radius)

\* C30: after every tick pad_states holds exactly the pads whose disc some
\* touch circle kept in this tick meets; a pad no kept circle meets is clear
\* whatever it was a tick ago.
C30_PadStates ==
    IF tick_out.ticked
    THEN pad_states = {p \in Pads : Touched(p)}
    ELSE pad_states = {}

\* after a tick one pad is pressed and another, pressed a tick ago and no
\* longer met by any circle, is clear
C30_Witness ==
    /\ tick_out.ticked
    /\ pad_states # {}
    /\ \E p \in Pads : tick_out.pad_up[p] # 0 /\ ~Touched(p) /\ p \notin pad_states

\* after a tick two touch circles are kept and each presses a pad of its own
C30_WitnessTwo ==
    /\ tick_out.ticked
    /\ Len(tick_out.touch_points) >= 2
    /\ Cardinality(pad_states) >= 2

(***************************************************************************)
(* C31: the activation of notes and actions.                               *)
(***************************************************************************)
\* the sequence of indices is strictly increasing
Increasing(s) == \A i, j \in DOMAIN s : i < j => s[i] < s[j]

\* the number of places of the sequence that hold x
Occurrences(s, x) == Cardinality({i \in DOMAIN s : s[i] = x})

\* the tick is the first with now >= moment - lead (moments and lead in
\* millionths of a tick)
FirstTickFrom(moment_u, lead_u) ==
    /\ timer * 1000000 < moment_u - lead_u
    /\ timer' * 1000000 >= moment_u - lead_u

\* C31: in every tick the pointers do not decrease; a note is appended to
\* active_notes, once, exactly in the first tick with
\* now >= note.moment - 2 * JUDGE_TPS, and an action to active_actions,
\* once, exactly in the first tick with now >= action.moment - JUDGE_TPS;
\* active_notes keeps the order of note_sequence.
C31_Activation ==
    [][Tick =>
        /\ note_pointer' >= note_pointer
        /\ action_pointer' >= action_pointer
        /\ \A i \in DOMAIN note_sequence :
              /\ (Occurrences(tick_out'.offered_notes, i) = Occurrences(active_notes, i) + 1)
                    <=> FirstTickFrom(note_sequence[i].moment * 1000000,
                                      2 * JUDGE_TPS * 1000000)
              /\ Occurrences(tick_out'.offered_notes, i)
                    \in {Occurrences(active_notes, i), Occurrences(active_notes, i) + 1}
              /\ Occurrences(tick_out'.offered_notes, i) <= 1
              /\ i \in Range(active_notes') => i \in Range(tick_out'.offered_notes)
        /\ \A k \in DOMAIN action_sequence :
              /\ (Occurrences(tick_out'.offered_actions, k) = Occurrences(active_actions, k) + 1)
                    <=> FirstTickFrom(action_sequence[k].moment_u, JUDGE_TPS * 1000000)
              /\ Occurrences(tick_out'.offered_actions, k)
                    \in {Occurrences(active_actions, k), Occurrences(active_actions, k) + 1}
              /\ Occurrences(tick_out'.offered_actions, k) <= 1
              /\ k \in Range(active_actions') => k \in Range(tick_out'.offered_actions)
        /\ Increasing(tick_out'.offered_notes)
        /\ Increasing(active_notes')]_vars

\* a tick has just appended a note behind an earlier note that is still
\* active, and an action behind an earlier action
C31_Witness ==
    /\ tick_out.ticked
    /\ Len(active_notes) >= 2
    /\ active_notes[Len(active_notes)] = note_pointer
    /\ timer - MaxDt < note_sequence[note_pointer].moment - 2 * JUDGE_TPS
    /\ timer >= note_sequence[note_pointer].moment - 2 * JUDGE_TPS

\* a tick has just appended an action behind an earlier action that is
\* still active
C31_WitnessAction ==
    /\ tick_out.ticked
    /\ Len(active_actions) >= 2
    /\ active_actions[Len(active_actions)] = action_pointer
    /\ (timer - MaxDt) * 1000000
          < action_sequence[action_pointer].moment_u - JUDGE_TPS * 1000000
    /\ timer * 1000000 >= action_sequence[action_pointer].moment_u - JUDGE_TPS * 1000000

(***************************************************************************)
(* C32: the order of the phases of a tick.                                 *)
(***************************************************************************)
\* the offers of the last tick, in the order made
AllOffers == IF tick_out.ticked THEN Concat(tick_out.offers) ELSE <<>>

\* the simple note i, not judged before the tick, is past its available
\* window at the time of the tick
WouldTimeOut(i) ==
    /\ IsSimple(note_sequence[i])
    /\ ns[i].judge = "NotYet"
    /\ timer' - note_sequence[i].moment > get_available_delta(note_sequence[i])

\* C32: in every tick the pad-down events are dispatched before the notes
\* are updated: the first offer made to a note finds it as the last tick
\* left it, and a simple note that would time out in the tick and consumes
\* a pad-down is judged by the pad-down, with its action; a note is removed
\* from active_notes in the tick exactly when finish holds after its
\* update, and the record of a removed note judged Bad is appended in that
\* tick.
C32_PhaseOrder ==
    [][Tick =>
        /\ \A j \in DOMAIN AllOffers' :
              LET o == AllOffers'[j]
              IN  /\ (\A h \in 1..(j - 1) : AllOffers'[h].note # o.note)
                        => o.before = ns[o.note]
                  /\ (o.consumed /\ WouldTimeOut(o.note))
                        => /\ ns'[o.note].judge = "Bad"
                           /\ ns'[o.note].judge_action = o.event[2]
                           /\ ns'[o.note].judge_action # 0
                           /\ ns'[o.note].judge_moment = timer'
        /\ \A i \in Range(tick_out'.offered_notes) :
              /\ finish(note_sequence[i], ns'[i], timer') <=> i \notin Range(active_notes')
              /\ finish(note_sequence[i], ns'[i], timer') <=> i \in Range(tick_out'.finished_notes)
              /\ (i \in Range(tick_out'.finished_notes) /\ ns'[i].judge = "Bad")
                    => \E r \in DOMAIN NewRecords :
                          /\ NewRecords[r].affected = note_sequence[i].cursor
                          /\ NewRecords[r].time = RecordTime(timer')
        /\ Range(active_notes') \subseteq Range(tick_out'.offered_notes)]_vars

\* the last tick judged a note by a pad-down at a time past the note's
\* window, and retired it with a record of that tick
C32_Witness ==
    /\ tick_out.ticked
    /\ \E j \in DOMAIN AllOffers :
          LET o == AllOffers[j]
              n == note_sequence[o.note]
          IN  /\ o.consumed
              /\ IsSimple(n)
              /\ timer - n.moment > get_available_delta(n)
              /\ ns[o.note].judge_action = o.event[2]
              /\ o.note \in Range(tick_out.finished_notes)
              /\ o.note \notin Range(active_notes)
              /\ muri_record_list # <<>>
              /\ muri_record_list[Len(muri_record_list)].time = RecordTime(timer)

(***************************************************************************)
(* C33: a second press on a pad that is already pressed.                   *)
(***************************************************************************)
\* the chart is two taps on one pad, the press of the second starting
\* before the press of the first ends
TwoTapChart ==
    /\ loaded
    /\ Len(note_sequence) = 2
    /\ note_sequence[1].kind = "Tap"
    /\ note_sequence[2].kind = "Tap"
    /\ note_sequence[1].pad = note_sequence[2].pad
    /\ note_sequence[1].moment <= note_sequence[2].moment
    /\ note_sequence[2].moment < note_sequence[1].moment + RELEASE_DELAY

\* the later tap has been retired
LaterTapRetired == note_pointer = 2 /\ 2 \notin Range(active_notes) /\ ns[2].judge # "NotYet"

\* C33: on two taps on one pad with overlapping presses, a tick has a
\* pad-down event only while the earlier tap is not judged, and the earlier
\* tap consumes it; by the end of the presses the earlier tap is judged by
\* that event; the later tap never gets an action, is judged Bad by the
\* timeout past its window only, and at its retirement the record list is
\* one Overlap record on it.
C33_SecondPress ==
    [][(Tick /\ TwoTapChart) =>
        /\ PadDownEvents' # {}
              => /\ ns[1].judge = "NotYet"
                 /\ Cardinality(PadDownEvents') = 1
                 /\ tick_out'.consumers = <<1>>
                 /\ ns'[1].judge # "NotYet"
                 /\ ns'[1].judge_action # 0
        /\ timer' >= note_sequence[2].moment + RELEASE_DELAY
              => ns'[1].judge # "NotYet" /\ ns'[1].judge_action # 0
        /\ ns'[2].judge_action = 0
        /\ 2 \notin Range(tick_out'.consumers)
        /\ ns'[2].judge # "NotYet"
              => /\ ns'[2].judge = "Bad"
                 /\ ns'[2].judge_moment - note_sequence[2].moment > TAP_AVAILABLE
        /\ (ns[2].judge = "NotYet" /\ ns'[2].judge # "NotYet")
              => timer - note_sequence[2].moment <= TAP_AVAILABLE
        /\ LaterTapRetired'
              => /\ Len(muri_record_list') = 1
                 /\ muri_record_list'[1].type = "Overlap"
                 /\ muri_record_list'[1].affected = note_sequence[2].cursor
        /\ ~LaterTapRetired' => muri_record_list' = <<>>]_vars

\* the later of the two taps has timed out and is reported, the earlier
\* having been judged by the one pad-down
C33_Witness ==
    /\ TwoTapChart
    /\ LaterTapRetired
    /\ ns[1].judge = "Critical"
    /\ ns[1].judge_action # 0
    /\ ns[2].judge = "Bad"
    /\ Len(muri_record_list) = 1

\* the tick sees both presses at once: the pad is pressed by the later
\* tap's action while the earlier tap consumes the pad-down
C33_WitnessBoth ==
    /\ TwoTapChart
    /\ tick_out.ticked
    /\ PadDownEvents # {}
    /\ Len(tick_out.touch_points) = 2

(***************************************************************************)
(* C34: a judgement is final.                                              *)
(***************************************************************************)
\* the judgement fields of a note's state
Judgement(s) == <<s.judge, s.judge_moment, s.judge_action>>

\* the judgement made in state s stays in state t
JudgementKept(s, t) == s.judge # "NotYet" => Judgement(t) = Judgement(s)

\* the same of note i and, of a touch group, of each of its children
NoteJudgementKept(i, s, t) ==
    /\ JudgementKept(s, t)
    /\ note_sequence[i].kind = "TouchGroup"
          => \A c \in DOMAIN s.children : JudgementKept(s.children[c], t.children[c])

\* the offer was made to a note, or to children of a group, judged already
OfferedWhenJudged(o) ==
    IF note_sequence[o.note].kind = "TouchGroup"
    THEN \A c \in DOMAIN o.before.children : o.before.children[c].judge # "NotYet"
    ELSE o.before.judge # "NotYet"

\* C34: a judge that has left NotYet (of a tap, hold, touch, touch hold,
\* child of a touch group, slide chain or wifi) is never changed again, nor
\* its judge_moment or judge_action, by a tick as a whole or by any one
\* pad-down offer within it, and a judged note consumes no pad-down event.
C34_JudgementFinal ==
    [][Tick =>
        /\ \A i \in DOMAIN ns : NoteJudgementKept(i, ns[i], ns'[i])
        /\ \A j \in DOMAIN AllOffers' :
              LET o == AllOffers'[j]
              IN  /\ NoteJudgementKept(o.note, o.before, o.after)
                  /\ NoteJudgementKept(o.note, o.after, ns'[o.note])
                  /\ OfferedWhenJudged(o) => (~o.consumed /\ o.after = o.before)]_vars

\* a slide chain judged Critical in an earlier tick has gone through a
\* later tick, still active, with its judgement in place
C34_Witness ==
    /\ tick_out.ticked
    /\ \E i \in Range(active_notes) :
          /\ note_sequence[i].kind = "SlideChain"
          /\ ns[i].judge = "Critical"
          /\ ns[i].judge_moment < timer

\* a hold judged in an earlier tick was offered a pad-down event in the
\* last tick and left it to a later note
C34_WitnessOffer ==
    /\ tick_out.ticked
    /\ \E j \in DOMAIN AllOffers :
          LET o == AllOffers[j]
          IN  /\ note_sequence[o.note].kind = "Hold"
              /\ o.before.judge # "NotYet"
              /\ ~o.consumed
              /\ \E h \in DOMAIN AllOffers :
                    h > j /\ AllOffers[h].event = o.event /\ AllOffers[h].consumed

\* the children of a touch group are judged and the group is retired
C34_WitnessGroup ==
    /\ tick_out.ticked
    /\ \E i \in Range(tick_out.finished_notes) :
          /\ note_sequence[i].kind = "TouchGroup"
          /\ \A c \in DOMAIN ns[i].children : ns[i].children[c].judge # "NotYet"

(***************************************************************************)
(* C35: the judge of a simple note at its retirement.                      *)
(***************************************************************************)
\* the simple notes the last tick removed from active_notes
RetiredSimple ==
    IF tick_out.ticked
    THEN {i \in Range(tick_out.finished_notes) : IsSimple(note_sequence[i])}
    ELSE {}

\* C35 as stated: a tap, hold, touch or touch hold is judged when it is
\* removed from active_notes.
C35_JudgedAtRetirement ==
    \A i \in RetiredSimple : ns[i].judge # "NotYet"

\* a hold whose head got no pad-down has been removed, at now > end_moment
\* and within its available window, without a judgement and without a record
C35_UnjudgedHold ==
    \E i \in RetiredSimple :
        /\ note_sequence[i].kind = "Hold"
        /\ ns[i].judge = "NotYet"
        /\ timer > note_sequence[i].end_moment
        /\ timer - note_sequence[i].moment <= get_available_delta(note_sequence[i])
        /\ \A r \in DOMAIN muri_record_list :
              muri_record_list[r].affected # note_sequence[i].cursor

(***************************************************************************)
(* C36: the Bad children of a touch group.                                 *)
(***************************************************************************)
\* the touch groups the last tick removed from active_notes
RetiredGroups ==
    IF tick_out.ticked
    THEN {i \in Range(tick_out.finished_notes) : note_sequence[i].kind = "TouchGroup"}
    ELSE {}

\* the cursors of the children of group i that are judged Bad
BadChildren(i) ==
    {note_sequence[i].children[c].cursor :
        c \in {c \in DOMAIN ns[i].children : ns[i].children[c].judge = "Bad"}}

\* C36 as stated: when a touch group is retired, every child of it that is
\* judged Bad has a record in muri_record_list.
C36_BadChildReported ==
    \A i \in RetiredGroups :
        \A cur \in BadChildren(i) :
            \E r \in DOMAIN muri_record_list : muri_record_list[r].affected = cur

\* a touch group has been retired with a Bad child and the tick that
\* retired it appended no record
C36_UnreportedChild ==
    \E i \in RetiredGroups :
        /\ BadChildren(i) # {}
        /\ \A r \in DOMAIN muri_record_list :
              /\ muri_record_list[r].time # RecordTime(timer)
              /\ muri_record_list[r].affected \notin BadChildren(i)

(***************************************************************************)
(* C37: what a SlideTooFast record tells.                                  *)
(***************************************************************************)
\* the slides and wifis of the chart with a SlideTooFast record
TooFastReported ==
    {i \in DOMAIN note_sequence :
        /\ IsSlide(note_sequence[i])
        /\ \E r \in DOMAIN muri_record_list :
              /\ muri_record_list[r].type = "SlideTooFast"
              /\ muri_record_list[r].affected = note_sequence[i].cursor}

\* every area of the slide, or of every lane of the wifi, has been passed
AllAreasDone(i) ==
    IF note_sequence[i].kind = "SlideChain"
    THEN ns[i].cur_area_idx = note_sequence[i].total_area_num
    ELSE \A l \in 1..3 : ns[i].lane_finished[l]

\* C37 as stated: a slide or wifi with a SlideTooFast record has completed
\* all of its areas, at a judge_moment earlier than its critical_moment.
C37_TooFastMeansEarly ==
    \A i \in TooFastReported :
        /\ AllAreasDone(i)
        /\ ns[i].judge_moment * 1000000 < note_sequence[i].critical_moment_u

\* a slide that ended Bad by the too-late timeout has a SlideTooFast record
C37_LateReported ==
    \E i \in TooFastReported :
        /\ ~AllAreasDone(i)
        /\ ns[i].judge = "Bad"
        /\ ns[i].judge_moment > note_sequence[i].end_moment + SLIDE_AVAILABLE

(***************************************************************************)
(* C38: cur_area_idx and area_judge_actions of a slide chain.              *)
(***************************************************************************)
\* the areas of the harness's chain without an entry in area_judge_actions
EmptyAreas == {i \in 1..HarnessNote.total_area_num : hs.st.area_judge_actions[i] = <<>>}

\* the harness's chain has completed
ChainCompleted == hs.st.cur_area_idx = HarnessNote.total_area_num

\* C38: over every update of a slide chain cur_area_idx does not decrease
\* and stays within total_area_num; once the chain has completed, its last
\* area has an entry in area_judge_actions and no two areas in a row are
\* without one.
C38_AreaProgress ==
    [][(UpdateSlide /\ HarnessNote.kind = "SlideChain") =>
        /\ hs'.st.cur_area_idx >= hs.st.cur_area_idx
        /\ hs'.st.cur_area_idx <= HarnessNote.total_area_num
        /\ ChainCompleted' =>
              /\ HarnessNote.total_area_num \notin EmptyAreas'
              /\ \A i \in EmptyAreas' : (i + 1) \notin EmptyAreas']_vars

\* a chain of five areas has completed with two areas skipped, not in a row
C38_Witness ==
    /\ hs # <<>> /\ HarnessNote.kind = "SlideChain"
    /\ ChainCompleted
    /\ Cardinality(EmptyAreas) = 2
    /\ HarnessNote.total_area_num \notin EmptyAreas

\* a chain has stopped short of its end, its last areas without an entry
C38_WitnessShort ==
    /\ hs # <<>> /\ HarnessNote.kind = "SlideChain"
    /\ hs.steps = MaxSteps
    /\ hs.st.cur_area_idx > 0
    /\ ~ChainCompleted
    /\ \E i \in EmptyAreas : (i + 1) \in EmptyAreas

(***************************************************************************)
(* C39: pad_states and last_pad_source.                                    *)
(***************************************************************************)
\* the value is an action of the chart, not None
IsAction(x) == x # 0 /\ x \in DOMAIN action_sequence

\* C39: after every tick a pad is in pad_states exactly when
\* last_pad_source holds an action for it; the pad-up entry of every pad
\* released in the tick and the source of every pad-down event dispatched
\* in the tick are actions, never None.
C39_SourcesNotNull ==
    [][Tick =>
        /\ \A p \in Pads :
              /\ p \in pad_states' <=> last_pad_source'[p] # 0
              /\ p \in pad_states' => IsAction(last_pad_source'[p])
              /\ (p \in pad_states /\ p \notin pad_states') => IsAction(tick_out'.pad_up[p])
        /\ \A e \in PadDownEvents' : IsAction(e[2])]_vars

\* the last tick released a pad that two touch circles had pressed, pressed
\* another, and dispatched a pad-down event
C39_Witness ==
    /\ tick_out.ticked
    /\ \E p \in Pads : p \notin pad_states /\ IsAction(tick_out.pad_up[p])
    /\ \E p \in pad_states : IsAction(last_pad_source[p])
    /\ PadDownEvents # {}

\* two touch circles press one pad, which has the later one for its source
C39_WitnessShared ==
    /\ tick_out.ticked
    /\ \E p \in pad_states :
          /\ Cardinality({k \in DOMAIN tick_out.touch_points :
                CircleHitsPad(tick_out.touch_points[k].center,
                              tick_out.touch_points[k].radius, p)}) = 2
          /\ last_pad_source[p] = tick_out.touch_points[2].action

(***************************************************************************)
(* C40: what an ExtraPadDown injects over a whole run.                     *)
(***************************************************************************)
\* the ExtraPadDowns whose moment is not earlier than the initial timer
LateEnough == {k \in ExtraPadDowns : action_sequence[k].moment_u >= -(JUDGE_TPS * 3) * 1000000}

\* the pad-down events of the tick just taken on pad p
EventsOn(p) == {e \in PadDownEvents' : e[1] = p}

\* C40 (as stated): for any positive tick increments an ExtraPadDown whose
\* moment is not before the initial timer injects exactly one pad-down event
\* of its own over the run, in the one tick whose interval holds its
\* moment, and is removed from active_actions in that tick.
C40_OneEventEach ==
    [][Tick =>
        \A k \in LateEnough :
            /\ InWindow(k) <=> (<<action_sequence[k].pad, k>> \in PadDownEvents')
            /\ InWindow(k) => k \notin Range(active_actions')]_vars

\* C40 (amended): for any positive tick increments an ExtraPadDown whose
\* moment is not before the initial timer fires in exactly one tick of the
\* run, the one whose interval [last_now, now) holds its moment: it is
\* active in that tick, it is removed from active_actions in it and is not
\* active after it, and no other tick delivers an event of it.  The firing
\* tick delivers exactly one pad-down event on its pad; the source of that
\* event is the last ExtraPadDown of active_actions that fired on the pad,
\* or the touch source of the pad when the pad is newly pressed in the
\* tick.
C40_ExtraPadDownOnce ==
    [][Tick =>
        \A k \in LateEnough :
            /\ InWindow(k) => WasActive(k)
            /\ InWindow(k) => k \notin Range(active_actions')
            /\ InWindow(k) =>
                  EventsOn(action_sequence[k].pad)
                      = {<<action_sequence[k].pad,
                           DeliveredSource(action_sequence[k].pad)>>}
            /\ ~InWindow(k) => <<action_sequence[k].pad, k>> \notin PadDownEvents'
            /\ k \in Range(active_actions')
                  => action_sequence[k].moment_u >= timer' * 1000000]_vars

\* the ExtraPadDown k was in active_actions during the last tick and was
\* removed by it
FiredLastTick(k) ==
    /\ tick_out.ticked
    /\ k \in Range(tick_out.offered_actions)
    /\ k \notin Range(active_actions)
    /\ action_sequence[k].moment_u < timer * 1000000

\* two ExtraPadDowns on one pad fired in the last tick, and the pad has the
\* one event of the later
C40_Witness ==
    /\ loaded
    /\ \E k1, k2 \in LateEnough :
          /\ k1 < k2
          /\ action_sequence[k1].pad = action_sequence[k2].pad
          /\ FiredLastTick(k1)
          /\ FiredLastTick(k2)
          /\ <<action_sequence[k1].pad, k2>> \in PadDownEvents
          /\ <<action_sequence[k1].pad, k1>> \notin PadDownEvents

\* an ExtraPadDown fired alone in the last tick and its pad has the event
\* with the ExtraPadDown as source
C40_WitnessOwn ==
    /\ loaded
    /\ \E k \in LateEnough :
          /\ FiredLastTick(k)
          /\ \A j \in ExtraPadDowns : FiredLastTick(j) => j = k
          /\ {e \in PadDownEvents : e[1] = action_sequence[k].pad}
                 = {<<action_sequence[k].pad, k>>}

\* an ExtraPadDown fired in the tick that newly pressed its pad, and the
\* pad's one event has the slide's touch as source
C40_WitnessPressed ==
    /\ loaded
    /\ \E k \in LateEnough :
          /\ FiredLastTick(k)
          /\ action_sequence[k].pad \in pad_states
          /\ \E e \in PadDownEvents :
                /\ e[1] = action_sequence[k].pad
                /\ action_sequence[e[2]].kind = "Slide"

====
